---------------------------- MODULE Spec2Model ----------------------------
(***************************************************************************)
(* Model of the liquidation-PDF extractor (src/src/extractors/              *)
(* pdf_extractor.py) and of the document validator (src/src/models/         *)
(* liquidation.py).                                                         *)
(*                                                                          *)
(* Text is modelled character by character: a string is a sequence of       *)
(* one-character strings, "\n" is the line break.  A cell of a table row is *)
(* a string or None (the detector's absent cell).  Amounts are exact        *)
(* decimals; inside records they are kept as integers counting thousandths  *)
(* ("mils"), so 0.01 is 10.                                                 *)
(***************************************************************************)
EXTENDS Integers, Sequences, FiniteSets, TLC

VARIABLES
    \* ---- amount parser harness
    a_pc, a_val, a_text, a_res,
    \* ---- fiscal-year inference harness
    y_pc, y_rec, y_cont, y_hint, y_out,
    \* ---- totals-cell parser harness
    t_lines, t_idx, t_totals,
    \* ---- cross-validator harness: the document under validation and the
    \*      results of validate_totals / validate_exercise_summaries
    v_pc, v_records, v_summaries, v_totals, v_deductions, v_errors, v_results,
    \* ---- the extractor: the kind of document, the source file and its pages
    family, file, pdf,
    \* ---- LiquidationPDFExtractor: position in extract(), outcome, run number
    pc, outcome, run, first,
    \* ---- the extractor's fields _pending_partial_row, _last_processed_row,
    \*      _replace_last_record
    pending_partial_row, last_processed_row, replace_last_record,
    \* ---- locals of extract()
    page_idx, tribute_records, exercise_summaries, doc_totals, doc_deductions,
    \* ---- locals of _extract_tribute_records()
    row_idx, page_records, page_summaries, current_exercise,
    \* ---- history: the last cross-page backward merge, the number of
    \*      records emitted by rows that are not partial, the row the row
    \*      loop saw last, and the <<page, row>> places of the rows the row
    \*      loop has taken so far, in the order it took them
    merge_log, emitted, prev_row, fed,
    \* ---- row classifier harness: a row, whether it is partial, and the
    \*      record assembled from it
    r_pc, r_row, r_partial, r_record,
    \* ---- two extractors at work side by side: each one's source pages,
    \*      position in extract(), fields and locals
    extractors

amountVars == <<a_pc, a_val, a_text, a_res>>
yearVars == <<y_pc, y_rec, y_cont, y_hint, y_out>>
totalsVars == <<t_lines, t_idx, t_totals>>
validVars == <<v_pc, v_records, v_summaries, v_totals, v_deductions, v_errors, v_results>>
inputVars == <<family, file, pdf>>
fieldVars == <<pending_partial_row, last_processed_row, replace_last_record>>
extractVars == <<page_idx, tribute_records, exercise_summaries, doc_totals, doc_deductions>>
pageVars == <<row_idx, page_records, page_summaries, current_exercise>>
historyVars == <<merge_log, emitted, prev_row, fed>>
rowVars == <<r_pc, r_row, r_partial, r_record>>
pairVars == <<extractors>>
engineVars == <<family, file, pdf, pc, outcome, run, first,
                pending_partial_row, last_processed_row, replace_last_record,
                page_idx, tribute_records, exercise_summaries, doc_totals, doc_deductions,
                row_idx, page_records, page_summaries, current_exercise,
                merge_log, emitted, prev_row, fed>>
vars == <<a_pc, a_val, a_text, a_res, y_pc, y_rec, y_cont, y_hint, y_out,
          t_lines, t_idx, t_totals,
          v_pc, v_records, v_summaries, v_totals, v_deductions, v_errors, v_results,
          family, file, pdf, pc, outcome, run, first,
          pending_partial_row, last_processed_row, replace_last_record,
          page_idx, tribute_records, exercise_summaries, doc_totals, doc_deductions,
          row_idx, page_records, page_summaries, current_exercise,
          merge_log, emitted, prev_row, fed,
          r_pc, r_row, r_partial, r_record, extractors>>

(***************************************************************************)
(* Text helpers (Python str operations used by the source).                 *)
(***************************************************************************)
\* Python's None as a cell value: a sentinel no string of the model equals.
None == <<"~None~">>

\* str(x): the text of a cell; str(None) is the four letters "None".
Str(x) == IF x = None THEN <<"N", "o", "n", "e">> ELSE x

\* Python truthiness of a cell: None and "" are falsy.
Truthy(x) == x # None /\ x # <<>>

Digits == <<"0", "1", "2", "3", "4", "5", "6", "7", "8", "9">>
IsDigit(c) == \E i \in 1..10 : Digits[i] = c
DigitVal(c) == (CHOOSE i \in 1..10 : Digits[i] = c) - 1

LowerLetters == <<"a","b","c","d","e","f","g","h","i","j","k","l","m","n","o",
                  "p","q","r","s","t","u","v","w","x","y","z","ó","í">>
UpperLetters == <<"A","B","C","D","E","F","G","H","I","J","K","L","M","N","O",
                  "P","Q","R","S","T","U","V","W","X","Y","Z","Ó","Í">>
IsUpperLetter(c) == \E i \in 1..26 : UpperLetters[i] = c
UpperChar(c) ==
    IF \E i \in 1..Len(LowerLetters) : LowerLetters[i] = c
    THEN UpperLetters[CHOOSE i \in 1..Len(LowerLetters) : LowerLetters[i] = c]
    ELSE c
\* str.upper()
Upper(s) == [i \in 1..Len(s) |-> UpperChar(s[i])]

IsSpace(c) == c \in {" ", "\t", "\n"}

RECURSIVE LStrip(_)
LStrip(s) == IF s # <<>> /\ IsSpace(Head(s)) THEN LStrip(Tail(s)) ELSE s
RECURSIVE RStrip(_)
RStrip(s) ==
    IF s # <<>> /\ IsSpace(s[Len(s)]) THEN RStrip(SubSeq(s, 1, Len(s) - 1)) ELSE s
\* str.strip()
Strip(s) == RStrip(LStrip(s))

\* sub in s
Contains(s, sub) ==
    \E i \in 1..(Len(s) - Len(sub) + 1) : SubSeq(s, i, i + Len(sub) - 1) = sub
\* s.startswith(sub)
StartsWith(s, sub) == Len(s) >= Len(sub) /\ SubSeq(s, 1, Len(sub)) = sub
HasChar(s, c) == \E i \in 1..Len(s) : s[i] = c

\* s.replace(c, ""), for a single character c
RemoveChar(s, c) == SelectSeq(s, LAMBDA x : x # c)
\* s.replace(c, d), for single characters
ReplaceChar(s, c, d) == [i \in 1..Len(s) |-> IF s[i] = c THEN d ELSE s[i]]
\* s.rfind(c), 1-based; 0 when absent
RFind(s, c) == IF HasChar(s, c) THEN CHOOSE i \in 1..Len(s) :
                   s[i] = c /\ \A j \in (i + 1)..Len(s) : s[j] # c
               ELSE 0

RECURSIVE SplitLines(_)
\* s.split('\n'): always at least one line
SplitLines(s) ==
    IF ~HasChar(s, "\n") THEN <<s>>
    ELSE LET k == CHOOSE i \in 1..Len(s) : s[i] = "\n" /\ \A j \in 1..(i - 1) : s[j] # "\n"
         IN  <<SubSeq(s, 1, k - 1)>> \o SplitLines(SubSeq(s, k + 1, Len(s)))

RECURSIVE JoinWith(_, _)
\* sep.join(parts)
JoinWith(parts, sep) ==
    IF parts = <<>> THEN <<>>
    ELSE IF Len(parts) = 1 THEN parts[1]
    ELSE parts[1] \o sep \o JoinWith(Tail(parts), sep)

RECURSIVE CollapseSpaces(_)
\* re.sub(r'\s+', ' ', s)
CollapseSpaces(s) ==
    IF s = <<>> THEN <<>>
    ELSE IF IsSpace(Head(s))
         THEN <<" ">> \o CollapseSpaces(LStrip(s))
         ELSE <<Head(s)>> \o CollapseSpaces(Tail(s))

RECURSIVE Pow10(_)
Pow10(n) == IF n = 0 THEN 1 ELSE 10 * Pow10(n - 1)

RECURSIVE DigitsValue(_)
\* the number a run of digits denotes
DigitsValue(s) ==
    IF s = <<>> THEN 0 ELSE 10 * DigitsValue(SubSeq(s, 1, Len(s) - 1)) + DigitVal(s[Len(s)])

(***************************************************************************)
(* Amount Parser.                                                           *)
(***************************************************************************)
\* A decimal.Decimal: a finite number (-1)^neg * coef * 10^-scale, or the
\* special values the constructor also accepts.
DecZero == [kind |-> "num", neg |-> FALSE, coef |-> 0, scale |-> 0]
DecError == [kind |-> "error", neg |-> FALSE, coef |-> 0, scale |-> 0]

\* decimal.Decimal(text): the constructor's grammar
\*   [sign] (digits [. [digits]] | . digits)  |  [sign] Inf[inity]  |  [sign] [s]NaN
\* (text holding an exponent or underscores is outside the model's alphabet).
\* "error" stands for the InvalidOperation the constructor raises.
DecimalOf(text) ==
    LET s == Strip(text)
        signed == s # <<>> /\ Head(s) \in {"+", "-"}
        neg == s # <<>> /\ Head(s) = "-"
        body == IF signed THEN Tail(s) ELSE s
        ub == Upper(body)
        ndots == Len(SelectSeq(body, LAMBDA c : c = "."))
        digs == SelectSeq(body, IsDigit)
        wellFormed == /\ digs # <<>>
                      /\ ndots <= 1
                      /\ \A i \in 1..Len(body) : IsDigit(body[i]) \/ body[i] = "."
        dot == RFind(body, ".")
    IN  IF wellFormed
        THEN [kind |-> "num", neg |-> neg, coef |-> DigitsValue(digs),
              scale |-> IF dot = 0 THEN 0 ELSE Len(body) - dot]
        ELSE IF ub \in {<<"N","A","N">>, <<"S","N","A","N">>}
        THEN [kind |-> "nan", neg |-> neg, coef |-> 0, scale |-> 0]
        ELSE IF ub \in {<<"I","N","F">>, <<"I","N","F","I","N","I","T","Y">>}
        THEN [kind |-> "inf", neg |-> neg, coef |-> 0, scale |-> 0]
        ELSE DecError

\* A plausible slip: the earlier separator taken as the decimal point.
NormalizeSeparatorsFirstWins(value_str) ==
    IF HasChar(value_str, ",") /\ HasChar(value_str, ".")
    THEN IF RFind(value_str, ",") < RFind(value_str, ".")
         THEN ReplaceChar(RemoveChar(value_str, "."), ",", ".")
         ELSE RemoveChar(value_str, ",")
    ELSE IF HasChar(value_str, ",")
         THEN ReplaceChar(RemoveChar(value_str, "."), ",", ".")
         ELSE value_str

\* The separator handling of _parse_amount: which of ',' and '.' is the
\* decimal point.
NormalizeSeparators(value_str) ==
    IF HasChar(value_str, ",") /\ HasChar(value_str, ".")
    THEN IF RFind(value_str, ",") > RFind(value_str, ".")
         THEN ReplaceChar(RemoveChar(value_str, "."), ",", ".")
         ELSE RemoveChar(value_str, ",")
    ELSE IF HasChar(value_str, ",")
         THEN ReplaceChar(RemoveChar(value_str, "."), ",", ".")
         ELSE value_str

\* LiquidationPDFExtractor._parse_amount
ParseAmount(value) ==
    IF value = None \/ value = <<>> THEN DecZero
    ELSE LET value_str == Strip(Str(value))
         IN  IF value_str = <<>> \/ value_str = <<"-">> THEN DecZero
             ELSE LET d == DecimalOf(NormalizeSeparators(RemoveChar(value_str, " ")))
                  IN  IF d.kind = "error" THEN DecZero ELSE d

\* The value of a finite Decimal in thousandths (exact for up to three
\* decimal places, which is what the model's texts hold).
Mils(d) ==
    LET m == IF d.scale <= 3 THEN d.coef * Pow10(3 - d.scale)
             ELSE d.coef \div Pow10(d.scale - 3)
    IN  IF d.neg THEN 0 - m ELSE m

(***************************************************************************)
(* Number formatting used when amounts are written out.                     *)
(***************************************************************************)
RECURSIVE NatDigits(_)
\* str(n) for a natural number
NatDigits(n) == IF n < 10 THEN <<Digits[n + 1]>> ELSE NatDigits(n \div 10) \o <<Digits[(n % 10) + 1]>>

RECURSIVE GroupThousands(_)
\* the ',' grouping of the format specifier ',' on a digit string
GroupThousands(ds) ==
    IF Len(ds) <= 3 THEN ds
    ELSE GroupThousands(SubSeq(ds, 1, Len(ds) - 3)) \o <<",">> \o SubSeq(ds, Len(ds) - 2, Len(ds))

\* f"{v:,.2f}" for v = cents / 100, cents >= 0
FormatAmerican(cents) ==
    GroupThousands(NatDigits(cents \div 100)) \o <<".">>
        \o <<Digits[((cents \div 10) % 10) + 1], Digits[(cents % 10) + 1]>>

\* the separator swap .replace(',', 'X').replace('.', ',').replace('X', '.')
FormatEuropean(cents) ==
    ReplaceChar(ReplaceChar(ReplaceChar(FormatAmerican(cents), ",", "X"), ".", ","), "X", ".")

(***************************************************************************)
(* Harness of the amount parser: a value is formatted, or a raw cell text   *)
(* is taken, and then parsed.                                               *)
(***************************************************************************)
MaxSmallCents == 60
AmountSamples == (0..MaxSmallCents) \cup
    {99, 100, 101, 12345, 99999, 100000, 100001, 123456, 99999999, 100000000, 123456789}

RawAmounts == {
    None, <<>>, <<"-">>, <<" ">>, <<" ", "-", " ">>,
    <<"1", "2", "3", "4", ".", "5", "6">>,
    <<"0", ",", "0", "0">>,
    <<"1", " ", "2", "3", "4", ",", "5">>,
    <<"1", ".", "2", "3", "4">>,
    <<"1", ",", "2", "3", "4">>,
    <<"-", "5", ",", "0", "0">>,
    <<"1", ",", "2", ",", "3">>,
    <<"a", "b", "c">>,
    <<"N", "a", "N">>,
    <<".">> }

\* the totals dictionary _find_and_extract_totals starts from
ZeroTotals ==
    [voluntaria |-> 0, ejecutiva |-> 0, recargo |-> 0,
     diputacion_voluntaria |-> 0, diputacion_ejecutiva |-> 0,
     diputacion_recargo |-> 0, liquido |-> 0, a_liquidar |-> 0]

TIdle ==
    /\ t_lines = <<>>
    /\ t_idx = 0
    /\ t_totals = ZeroTotals

\* LiquidationDocument.deductions = None
NoDeductions == [present |-> FALSE, total_deducciones |-> 0]

VIdle ==
    /\ v_pc = "idle"
    /\ v_records = <<>>
    /\ v_summaries = <<>>
    /\ v_totals = ZeroTotals
    /\ v_deductions = NoDeductions
    /\ v_errors = <<>>
    /\ v_results = <<>>

XIdle == extractors = <<>>

RIdle ==
    /\ r_pc = "idle"
    /\ r_row = <<>>
    /\ r_partial = FALSE
    /\ r_record = <<>>

AIdle ==
    /\ a_pc = "idle"
    /\ a_val = -1
    /\ a_text = None
    /\ a_res = DecError

YIdle ==
    /\ y_pc = "idle"
    /\ y_rec = <<>>
    /\ y_cont = <<>>
    /\ y_hint = 0
    /\ y_out = 0

\* no row: what _pending_partial_row and _last_processed_row hold when None
\* (a row the extractor stores always has at least 8 cells)
NoRow == <<>>

\* no cross-page backward merge has happened
NoMerge ==
    [page |-> 0, index |-> 0, original |-> <<>>, anchor |-> <<>>, partial |-> <<>>,
     extended |-> FALSE]

\* no first run has finished
NoResult ==
    [outcome |-> "none", tribute_records |-> <<>>, exercise_summaries |-> <<>>,
     totals |-> ZeroTotals, deductions |-> NoDeductions]

EIdle ==
    /\ family = "none"
    /\ file = "ok"
    /\ pdf = <<>>
    /\ pc = "idle"
    /\ outcome = "none"
    /\ run = 0
    /\ first = NoResult
    /\ pending_partial_row = NoRow
    /\ last_processed_row = NoRow
    /\ replace_last_record = FALSE
    /\ page_idx = 0
    /\ tribute_records = <<>>
    /\ exercise_summaries = <<>>
    /\ doc_totals = ZeroTotals
    /\ doc_deductions = NoDeductions
    /\ row_idx = 0
    /\ page_records = <<>>
    /\ page_summaries = <<>>
    /\ current_exercise = 0
    /\ merge_log = NoMerge
    /\ emitted = 0
    /\ prev_row = NoRow
    /\ fed = <<>>

AInit ==
    /\ a_pc = "pick"
    /\ a_val = -1
    /\ a_text = None
    /\ a_res = DecError
    /\ YIdle
    /\ TIdle
    /\ VIdle
    /\ EIdle
    /\ XIdle
    /\ RIdle

AFormatEuropean ==
    /\ a_pc = "pick"
    /\ \E v \in AmountSamples :
        /\ a_val' = v
        /\ a_text' = FormatEuropean(v)
    /\ a_pc' = "european"
    /\ UNCHANGED <<a_res, yearVars, totalsVars, validVars, engineVars, rowVars, pairVars>>

AFormatAmerican ==
    /\ a_pc = "pick"
    /\ \E v \in AmountSamples :
        /\ a_val' = v
        /\ a_text' = FormatAmerican(v)
    /\ a_pc' = "american"
    /\ UNCHANGED <<a_res, yearVars, totalsVars, validVars, engineVars, rowVars, pairVars>>

ARawText ==
    /\ a_pc = "pick"
    /\ \E t \in RawAmounts : a_text' = t
    /\ a_pc' = "raw"
    /\ UNCHANGED <<a_val, a_res, yearVars, totalsVars, validVars, engineVars, rowVars, pairVars>>

AParse ==
    /\ a_pc \in {"european", "american", "raw"}
    /\ a_res' = ParseAmount(a_text)
    /\ a_pc' = IF a_pc = "raw" THEN "parsed_raw" ELSE "parsed_fmt"
    /\ UNCHANGED <<a_val, a_text, yearVars, totalsVars, validVars, engineVars, rowVars, pairVars>>

ANext == AFormatEuropean \/ AFormatAmerican \/ ARawText \/ AParse

SpecAmount == AInit /\ [][ANext]_vars

\* C6: formatting a non-negative amount of at most two decimals in European
\* or American style and parsing it gives the amount back; "", "-" and None
\* parse to zero.
C6_RoundTrip ==
    /\ a_pc = "parsed_fmt" =>
          /\ a_res.kind = "num"
          /\ ~a_res.neg
          /\ a_res.scale <= 3
          /\ Mils(a_res) = a_val * 10
    /\ (a_pc = "parsed_raw" /\ a_text \in {None, <<>>, <<"-">>}) => a_res = DecZero

\* a value with both separators (thousands and decimals) has been parsed
C6_Witness ==
    /\ a_pc = "parsed_fmt"
    /\ a_val = 123456789
    /\ HasChar(a_text, ",") /\ HasChar(a_text, ".")
    /\ RFind(a_text, ",") > RFind(a_text, ".")

(***************************************************************************)
(* Record Assembler: fiscal-year inference of _parse_tribute_row.           *)
(***************************************************************************)
YearMin == 2000
YearMax == 2030
DefaultYear == 2025
\* An absent year (Python None) is written 0: the source tests years only
\* by truthiness, which None and 0 share.
NoYear == 0

AllDigits(s) == \A i \in 1..Len(s) : IsDigit(s[i])

\* positions where r'026/(\d{4})/' matches
Matches026(s) ==
    {i \in 1..(Len(s) - 8) :
        /\ SubSeq(s, i, i + 3) = <<"0", "2", "6", "/">>
        /\ AllDigits(SubSeq(s, i + 4, i + 7))
        /\ s[i + 8] = "/"}
\* positions where r'(\d{4})' matches
MatchesFour(s) == {i \in 1..(Len(s) - 3) : AllDigits(SubSeq(s, i, i + 3))}

Min(S) == CHOOSE x \in S : \A y \in S : x <= y

\* re.search(r'(\d{4})', s): the leftmost four digits, as a number
FirstFour(s) == LET i == Min(MatchesFour(s)) IN DigitsValue(SubSeq(s, i, i + 3))

\* The ejercicio _parse_tribute_row gives a record with these (stripped) keys
\* and this year hint.
InferYear(clave_recaudacion, clave_contabilidad, ejercicio) ==
    LET from_rec ==
            IF clave_recaudacion = <<>> THEN NoYear
            ELSE IF Matches026(clave_recaudacion) # {}
                 THEN LET i == Min(Matches026(clave_recaudacion))
                      IN  DigitsValue(SubSeq(clave_recaudacion, i + 4, i + 7))
                 ELSE IF MatchesFour(clave_recaudacion) # {}
                         /\ FirstFour(clave_recaudacion) >= YearMin
                         /\ FirstFour(clave_recaudacion) <= YearMax
                      THEN FirstFour(clave_recaudacion)
                      ELSE NoYear
        extracted_ejercicio ==
            IF from_rec = NoYear /\ clave_contabilidad # <<>>
               /\ MatchesFour(clave_contabilidad) # {}
               /\ FirstFour(clave_contabilidad) >= YearMin
               /\ FirstFour(clave_contabilidad) <= YearMax
            THEN FirstFour(clave_contabilidad)
            ELSE from_rec
    IN  IF extracted_ejercicio # NoYear THEN extracted_ejercicio
        ELSE IF ejercicio = NoYear THEN DefaultYear
        ELSE ejercicio

(***************************************************************************)
(* Harness of the year inference: keys and a hint are chosen, the year is   *)
(* inferred.                                                                *)
(***************************************************************************)
k026_2024 == <<"0","2","6","/","2","0","2","4","/","2","0">>
k026_2023 == <<"0","2","6","/","2","0","2","3","/","2","0">>
k026_1999 == <<"0","2","6","/","1","9","9","9","/","2","0">>
k2024 == <<"2","6","/","2","0","2","4","/","2","0">>
k1999_2024 == <<"1","9","9","9","/","2","0","2","4","/","2","0">>
kNoDigits == <<"S","/","N">>
kc2023 == <<"2","0","2","3","/","M","/","7">>
kc2025 == <<"2","0","2","5","/","A","/","1">>
kc39200 == <<"3","9","2","0","0">>

CollectionKeys == {<<>>, k026_2024, k026_2023, k026_1999, k2024, k1999_2024, kNoDigits}
AccountingKeys == {<<>>, kc2023, kc2025, kc39200, k1999_2024}
YearHints == {NoYear, 2021, 2022}

YInit ==
    /\ y_pc = "pick"
    /\ y_rec \in CollectionKeys
    /\ y_cont \in AccountingKeys
    /\ y_hint \in YearHints
    /\ y_out = NoYear
    /\ AIdle
    /\ TIdle
    /\ VIdle
    /\ EIdle
    /\ XIdle
    /\ RIdle

YInfer ==
    /\ y_pc = "pick"
    /\ y_out' = InferYear(y_rec, y_cont, y_hint)
    /\ y_pc' = "inferred"
    /\ UNCHANGED <<y_rec, y_cont, y_hint, amountVars, totalsVars, validVars, engineVars, rowVars, pairVars>>

YNext == YInfer

SpecYear == YInit /\ [][YNext]_vars

\* the four-digit numbers between YearMin and YearMax that occur in a key
YearsIn(s) ==
    {y \in YearMin..YearMax :
        \E i \in MatchesFour(s) : DigitsValue(SubSeq(s, i, i + 3)) = y}

\* C4: the fiscal year is given by the first rule that applies: (a) the year
\* of a '026/YYYY/' pattern of the collection key, (b) a four-digit number in
\* 2000-2030 found in the collection key, (c) such a number found in the
\* accounting key, (d) the year hint, else 2025.
C4_YearPriority ==
    y_pc = "inferred" =>
        IF Matches026(y_rec) # {}
        THEN y_out = DigitsValue(SubSeq(y_rec, Min(Matches026(y_rec)) + 4,
                                        Min(Matches026(y_rec)) + 7))
        ELSE IF YearsIn(y_rec) # {} THEN y_out \in YearsIn(y_rec)
        ELSE IF YearsIn(y_cont) # {} THEN y_out \in YearsIn(y_cont)
        ELSE IF y_hint # NoYear THEN y_out = y_hint
        ELSE y_out = DefaultYear

(***************************************************************************)
(* Totals Locator: the line-by-line parse of the totals cell.               *)
(***************************************************************************)
wVOLUNTARIA == <<"V","O","L","U","N","T","A","R","I","A">>
wEJECUTIVA == <<"E","J","E","C","U","T","I","V","A">>
wRECARGO == <<"R","E","C","A","R","G","O">>
wDIPUTACI == <<"D","I","P","U","T","A","C","I">>
wDIPUTACION == <<"D","I","P","U","T","A","C","I","Ó","N">>

IsAmountChar(c) == IsDigit(c) \/ c = "." \/ c = ","

RECURSIVE TakeWhileAmount(_)
TakeWhileAmount(s) ==
    IF s # <<>> /\ IsAmountChar(Head(s)) THEN <<Head(s)>> \o TakeWhileAmount(Tail(s)) ELSE <<>>

\* positions where label r'\s+([\d.,]+)' matches in line
LabelMatches(line, label) ==
    {i \in 1..(Len(line) - Len(label) + 1) :
        /\ SubSeq(line, i, i + Len(label) - 1) = label
        /\ LET rest == SubSeq(line, i + Len(label), Len(line))
           IN  /\ rest # <<>> /\ IsSpace(Head(rest))
               /\ LStrip(rest) # <<>> /\ IsAmountChar(Head(LStrip(rest)))}

\* re.search(label + r'\s+([\d.,]+)', line): group 1 of the leftmost match,
\* None when there is no match
LabelAmount(line, label) ==
    IF LabelMatches(line, label) = {} THEN None
    ELSE LET i == Min(LabelMatches(line, label))
         IN  TakeWhileAmount(LStrip(SubSeq(line, i + Len(label), Len(line))))

\* A plausible slip: the plain labels looked for anywhere in the line, so
\* that a DIPUTACIÓN line is taken for the municipal one.
ParseTotalsLineAnywhere(totals, raw) ==
    LET line == Strip(raw)
        set(field, label) ==
            IF LabelAmount(line, label) = None THEN totals
            ELSE [totals EXCEPT ![field] = Mils(ParseAmount(LabelAmount(line, label)))]
    IN  IF line = <<>> THEN totals
        ELSE IF Contains(line, wVOLUNTARIA) THEN set("voluntaria", wVOLUNTARIA)
        ELSE IF Contains(line, wEJECUTIVA) THEN set("ejecutiva", wEJECUTIVA)
        ELSE IF Contains(line, wRECARGO) THEN set("recargo", wRECARGO)
        ELSE totals

\* One iteration of the loop over the lines of the totals cell.
ParseTotalsLine(totals, raw) ==
    LET line == Strip(raw)
        set(field, label) ==
            IF LabelAmount(line, label) = None THEN totals
            ELSE [totals EXCEPT ![field] = Mils(ParseAmount(LabelAmount(line, label)))]
        dip == Contains(Upper(line), wDIPUTACI)
    IN  IF line = <<>> THEN totals
        ELSE IF StartsWith(line, wVOLUNTARIA) THEN set("voluntaria", wVOLUNTARIA)
        ELSE IF StartsWith(line, wEJECUTIVA) THEN set("ejecutiva", wEJECUTIVA)
        ELSE IF StartsWith(line, wRECARGO) THEN set("recargo", wRECARGO)
        ELSE IF dip /\ Contains(line, wVOLUNTARIA)
             THEN set("diputacion_voluntaria", wVOLUNTARIA)
        ELSE IF dip /\ Contains(line, wEJECUTIVA)
             THEN set("diputacion_ejecutiva", wEJECUTIVA)
        ELSE IF dip /\ Contains(line, wRECARGO)
             THEN set("diputacion_recargo", wRECARGO)
        ELSE totals

RECURSIVE ParseTotalsLines(_, _)
\* The whole loop over multiline_cell.split('\n').
ParseTotalsLines(totals, lines) ==
    IF lines = <<>> THEN totals
    ELSE ParseTotalsLines(ParseTotalsLine(totals, Head(lines)), Tail(lines))

(***************************************************************************)
(* Harness of the totals-cell parse: a cell is chosen, its lines are        *)
(* parsed one by one.                                                       *)
(***************************************************************************)
lVol100 == wVOLUNTARIA \o <<" ", "1", "0", "0", ",", "0", "0">>
lDipVol10 == wDIPUTACION \o <<" ">> \o wVOLUNTARIA \o <<" ", "1", "0", ",", "0", "0">>
lEje20 == wEJECUTIVA \o <<" ", "2", "0", ",", "0", "0">>
lDipEje2 == wDIPUTACION \o <<" ">> \o wEJECUTIVA \o <<" ", "2", ",", "0", "0">>
lRec5 == wRECARGO \o <<" ", "5", ",", "0", "0">>
lDipRec == wDIPUTACION \o <<" ">> \o wRECARGO \o <<" ", "0", ",", "5", "0">>
lVolPadded == <<" ", " ">> \o wVOLUNTARIA \o <<" ", " ", "1", ".", "2", "3", "4", ",", "5", "6", " ">>
lVolNoAmount == wVOLUNTARIA
lTotal == <<"T", "O", "T", "A", "L">>
lDipLower == <<"D","i","p","u","t","a","c","i","ó","n"," ">> \o wEJECUTIVA \o <<" ", "7", ",", "0", "0">>

TotalsLineSamples == {lVol100, lDipVol10, lEje20, lDipEje2, lRec5, lDipRec,
                      lVolPadded, lVolNoAmount, lTotal, lDipLower, <<>>}
MaxTotalsLines == 2
TotalsCells == UNION {[1..n -> TotalsLineSamples] : n \in 1..MaxTotalsLines}

TotalFields == {"voluntaria", "ejecutiva", "recargo", "diputacion_voluntaria",
                "diputacion_ejecutiva", "diputacion_recargo", "liquido", "a_liquidar"}

TInit ==
    /\ t_lines \in TotalsCells
    /\ t_idx = 0
    /\ t_totals = ZeroTotals
    /\ AIdle
    /\ YIdle
    /\ VIdle
    /\ EIdle
    /\ XIdle
    /\ RIdle

TParseLine ==
    /\ t_idx < Len(t_lines)
    /\ t_idx' = t_idx + 1
    /\ t_totals' = ParseTotalsLine(t_totals, t_lines[t_idx + 1])
    /\ UNCHANGED <<t_lines, amountVars, yearVars, validVars, engineVars, rowVars, pairVars>>

TNext == TParseLine

SpecTotals == TInit /\ [][TNext]_vars

\* the fields a step changes
C10_Changed == {f \in TotalFields : t_totals'[f] # t_totals[f]}
C10_Line == Strip(t_lines[t_idx + 1])

\* C10: each line of the totals cell sets at most one field; a line starting
\* with VOLUNTARIA / EJECUTIVA / RECARGO sets the municipal total of that
\* name, a line prefixed by DIPUTACIÓN only the provincial counterpart; the
\* lines 'VOLUNTARIA 100,00' and 'DIPUTACIÓN VOLUNTARIA 10,00' give 100.00
\* and 10.00 in either order.
C10_LabelDisambiguation ==
    /\ [][t_idx' = t_idx + 1 =>
            /\ Cardinality(C10_Changed) <= 1
            /\ StartsWith(C10_Line, wVOLUNTARIA) => C10_Changed \subseteq {"voluntaria"}
            /\ StartsWith(C10_Line, wEJECUTIVA) => C10_Changed \subseteq {"ejecutiva"}
            /\ StartsWith(C10_Line, wRECARGO) => C10_Changed \subseteq {"recargo"}
            /\ StartsWith(C10_Line, wDIPUTACION \o <<" ">> \o wVOLUNTARIA) =>
                  C10_Changed \subseteq {"diputacion_voluntaria"}
            /\ StartsWith(C10_Line, wDIPUTACION \o <<" ">> \o wEJECUTIVA) =>
                  C10_Changed \subseteq {"diputacion_ejecutiva"}
            /\ StartsWith(C10_Line, wDIPUTACION \o <<" ">> \o wRECARGO) =>
                  C10_Changed \subseteq {"diputacion_recargo"}
            /\ C10_Line = lVol100 => t_totals'.voluntaria = 100000
            /\ C10_Line = lEje20 => t_totals'.ejecutiva = 20000
            /\ C10_Line = lRec5 => t_totals'.recargo = 5000
            /\ C10_Line = lDipVol10 => t_totals'.diputacion_voluntaria = 10000
            /\ C10_Line = lDipEje2 => t_totals'.diputacion_ejecutiva = 2000
            /\ C10_Line = lDipRec => t_totals'.diputacion_recargo = 500
       ]_vars
    /\ []((t_idx = Len(t_lines) /\ t_lines \in {<<lVol100, lDipVol10>>, <<lDipVol10, lVol100>>})
            => (t_totals.voluntaria = 100000 /\ t_totals.diputacion_voluntaria = 10000))

\* the municipal line has been parsed after the provincial one
C10_Witness ==
    /\ t_lines = <<lDipVol10, lVol100>>
    /\ t_idx = 2
    /\ t_totals.voluntaria = 100000
    /\ t_totals.diputacion_voluntaria = 10000

(***************************************************************************)
(* Document Model & Cross-Validator (src/src/models/liquidation.py).        *)
(***************************************************************************)
\* tolerance = Decimal('0.01'), in thousandths
Tolerance == 10

AmountFields == <<"voluntaria", "ejecutiva", "recargo", "diputacion_voluntaria",
                  "diputacion_ejecutiva", "diputacion_recargo", "liquido">>
AmountFieldSet == {AmountFields[i] : i \in 1..Len(AmountFields)}

Abs(x) == IF x < 0 THEN 0 - x ELSE x

RECURSIVE SumField(_, _)
\* sum(r.<f> for r in records)
SumField(records, f) ==
    IF records = <<>> THEN 0 ELSE records[1][f] + SumField(Tail(records), f)

\* LiquidationDocument.get_records_by_year
RecordsByYear(records, ejercicio) == SelectSeq(records, LAMBDA r : r.ejercicio = ejercicio)

\* the fields validate_totals compares, in its order
TotalsCheckedFields == <<"voluntaria", "ejecutiva", "recargo", "liquido">>

\* LiquidationDocument.validate_totals: the list of errors, each named by
\* the quantity it reports
ValidateTotals(records, totals, deductions) ==
    LET bad(f) == Abs(SumField(records, f) - totals[f]) > Tolerance
        fieldErrors == SelectSeq(TotalsCheckedFields, bad)
        expected_liquidar == totals.liquido - deductions.total_deducciones
    IN  IF deductions.present /\ Abs(expected_liquidar - totals.a_liquidar) > Tolerance
        THEN fieldErrors \o <<"a_liquidar">>
        ELSE fieldErrors

\* A plausible slip: the tolerance check dropped, any difference reported.
YearResultStrict(records, summary) ==
    LET year_records == RecordsByYear(records, summary.ejercicio)
        bad(f) == SumField(year_records, f) # summary[f]
        errors == SelectSeq(AmountFields, bad)
    IN  [ejercicio |-> summary.ejercicio,
         is_valid |-> errors = <<>>,
         calc |-> [f \in AmountFieldSet |-> SumField(year_records, f)],
         doc |-> [f \in AmountFieldSet |-> summary[f]],
         errors |-> errors]

\* A plausible slip: the comparison made inclusive, a difference of exactly
\* the tolerance reported.
YearResultInclusive(records, summary) ==
    LET year_records == RecordsByYear(records, summary.ejercicio)
        bad(f) == Abs(SumField(year_records, f) - summary[f]) >= Tolerance
        errors == SelectSeq(AmountFields, bad)
    IN  [ejercicio |-> summary.ejercicio,
         is_valid |-> errors = <<>>,
         calc |-> [f \in AmountFieldSet |-> SumField(year_records, f)],
         doc |-> [f \in AmountFieldSet |-> summary[f]],
         errors |-> errors]

\* One iteration of validate_exercise_summaries: the ExerciseValidationResult
\* of a summary
YearResult(records, summary) ==
    LET year_records == RecordsByYear(records, summary.ejercicio)
        bad(f) == Abs(SumField(year_records, f) - summary[f]) > Tolerance
        errors == SelectSeq(AmountFields, bad)
    IN  [ejercicio |-> summary.ejercicio,
         is_valid |-> errors = <<>>,
         calc |-> [f \in AmountFieldSet |-> SumField(year_records, f)],
         doc |-> [f \in AmountFieldSet |-> summary[f]],
         errors |-> errors]

RECURSIVE ValidateSummariesFrom(_, _, _)
ValidateSummariesFrom(records, summaries, results) ==
    IF summaries = <<>> THEN results
    ELSE LET r == YearResult(records, Head(summaries))
         IN  ValidateSummariesFrom(records, Tail(summaries),
                 [y \in (DOMAIN results) \cup {r.ejercicio} |->
                     IF y = r.ejercicio THEN r ELSE results[y]])

\* A plausible slip: of two summaries of one year, the first one kept.
ValidateExerciseSummariesFirstWins(records, summaries) ==
    ValidateSummariesFrom(records,
                          [i \in 1..Len(summaries) |-> summaries[Len(summaries) + 1 - i]],
                          <<>>)

\* LiquidationDocument.validate_exercise_summaries: year -> result
ValidateExerciseSummaries(records, summaries) ==
    ValidateSummariesFrom(records, summaries, <<>>)

(***************************************************************************)
(* Harness of the validator: a document is put together (records, then      *)
(* summaries declared relative to the records, then grand totals declared   *)
(* relative to the summaries) and validated.                                *)
(***************************************************************************)
MaxValRecords == 2
MaxValSummaries == 2
ValYears == {2024, 2025}

AmountsA == [voluntaria |-> 1000, ejecutiva |-> 1000, recargo |-> 1000,
             diputacion_voluntaria |-> 1000, diputacion_ejecutiva |-> 1000,
             diputacion_recargo |-> 1000, liquido |-> 6000]
AmountsB == [voluntaria |-> 2500, ejecutiva |-> 0, recargo |-> 0,
             diputacion_voluntaria |-> 250, diputacion_ejecutiva |-> 0,
             diputacion_recargo |-> 0, liquido |-> 2750]
AmountsZero == [f \in AmountFieldSet |-> 0]
ValAmounts == {AmountsA, AmountsB}

\* differences between what is declared and what the records add up to
DeltaVol10 == [AmountsZero EXCEPT !.voluntaria = 10]
DeltaVolLiq == [AmountsZero EXCEPT !.voluntaria = 20, !.liquido = -20]
SummaryDeltas == {AmountsZero, DeltaVol10, DeltaVolLiq}
TotalsDeltas == {AmountsZero, [AmountsZero EXCEPT !.liquido = 11],
                 [AmountsZero EXCEPT !.diputacion_voluntaria = 11]}
DeductionSamples == {NoDeductions, [present |-> TRUE, total_deducciones |-> 500]}
LiquidarDeltas == {0, 500}

\* a TributeRecord as far as validation reads it
ValRecord(year, amounts) ==
    [concepto |-> <<"X">>, clave_contabilidad |-> <<>>, clave_recaudacion |-> <<>>,
     voluntaria |-> amounts.voluntaria, ejecutiva |-> amounts.ejecutiva,
     recargo |-> amounts.recargo,
     diputacion_voluntaria |-> amounts.diputacion_voluntaria,
     diputacion_ejecutiva |-> amounts.diputacion_ejecutiva,
     diputacion_recargo |-> amounts.diputacion_recargo,
     liquido |-> amounts.liquido, ejercicio |-> year]

\* an ExerciseSummary
ValSummary(year, amounts) ==
    [ejercicio |-> year,
     voluntaria |-> amounts.voluntaria, ejecutiva |-> amounts.ejecutiva,
     recargo |-> amounts.recargo,
     diputacion_voluntaria |-> amounts.diputacion_voluntaria,
     diputacion_ejecutiva |-> amounts.diputacion_ejecutiva,
     diputacion_recargo |-> amounts.diputacion_recargo,
     liquido |-> amounts.liquido]

VInit ==
    /\ v_pc = "records"
    /\ v_records = <<>>
    /\ v_summaries = <<>>
    /\ v_totals = ZeroTotals
    /\ v_deductions = NoDeductions
    /\ v_errors = <<>>
    /\ v_results = <<>>
    /\ AIdle
    /\ YIdle
    /\ TIdle
    /\ EIdle
    /\ XIdle
    /\ RIdle

VAddRecord ==
    /\ v_pc = "records"
    /\ Len(v_records) < MaxValRecords
    /\ \E y \in ValYears, a \in ValAmounts :
          v_records' = Append(v_records, ValRecord(y, a))
    /\ UNCHANGED <<v_pc, v_summaries, v_totals, v_deductions, v_errors, v_results,
                   amountVars, yearVars, totalsVars, engineVars, rowVars, pairVars>>

VAddSummary ==
    /\ v_pc \in {"records", "summaries"}
    /\ Len(v_summaries) < MaxValSummaries
    /\ \E y \in ValYears, d \in SummaryDeltas :
          v_summaries' = Append(v_summaries,
              ValSummary(y, [f \in AmountFieldSet |->
                                SumField(RecordsByYear(v_records, y), f) + d[f]]))
    /\ v_pc' = "summaries"
    /\ UNCHANGED <<v_records, v_totals, v_deductions, v_errors, v_results,
                   amountVars, yearVars, totalsVars, engineVars, rowVars, pairVars>>

VSetTotals ==
    /\ v_pc \in {"records", "summaries"}
    /\ \E d \in TotalsDeltas, ded \in DeductionSamples, l \in LiquidarDeltas :
          /\ v_totals' = [f \in TotalFields |->
                IF f = "a_liquidar"
                THEN SumField(v_summaries, "liquido") + d.liquido - l
                ELSE SumField(v_summaries, f) + d[f]]
          /\ v_deductions' = ded
    /\ v_pc' = "built"
    /\ UNCHANGED <<v_records, v_summaries, v_errors, v_results,
                   amountVars, yearVars, totalsVars, engineVars, rowVars, pairVars>>

VValidate ==
    /\ v_pc = "built"
    /\ v_errors' = ValidateTotals(v_records, v_totals, v_deductions)
    /\ v_results' = ValidateExerciseSummaries(v_records, v_summaries)
    /\ v_pc' = "validated"
    /\ UNCHANGED <<v_records, v_summaries, v_totals, v_deductions,
                   amountVars, yearVars, totalsVars, engineVars, rowVars, pairVars>>

VNext == VAddRecord \/ VAddSummary \/ VSetTotals \/ VValidate

SpecValidate == VInit /\ [][VNext]_vars

\* the years the document's records and summaries speak of
C5_RecordYears == {v_records[i].ejercicio : i \in 1..Len(v_records)}
C5_SummaryYears == {v_summaries[i].ejercicio : i \in 1..Len(v_summaries)}
\* every year has its one summary, and the records of the year add up to it
\* within 0.01 on each of the seven fields
C5_YearsReconcile ==
    /\ C5_RecordYears \subseteq C5_SummaryYears
    /\ \A i, j \in 1..Len(v_summaries) :
          v_summaries[i].ejercicio = v_summaries[j].ejercicio => i = j
    /\ \A i \in 1..Len(v_summaries) : \A f \in AmountFieldSet :
          Abs(SumField(RecordsByYear(v_records, v_summaries[i].ejercicio), f)
              - v_summaries[i][f]) <= Tolerance
\* the summaries add up exactly to the grand totals
C5_SummariesAddUp == \A f \in AmountFieldSet : SumField(v_summaries, f) = v_totals[f]
C5_AllValid ==
    /\ \A y \in DOMAIN v_results : v_results[y].is_valid
    /\ v_errors = <<>>

\* C5 as stated: per-year reconciliation within 0.01 and summaries adding up
\* exactly to the grand totals make every year valid and validate_totals
\* return no error.  It is read here on documents without deductions, the
\* reading most favourable to the claim (with deductions present an
\* a_liquidar that does not fit is one more way for it to fail).
C5_AsStated ==
    (v_pc = "validated" /\ ~v_deductions.present /\ C5_YearsReconcile /\ C5_SummariesAddUp)
    => C5_AllValid

\* C5 amended: in addition the per-year differences add up to at most 0.01
\* over the whole document on each field, and deductions are absent or
\* total_liquido - total_deducciones is within 0.01 of a_liquidar.
C5_Reconciliation ==
    (/\ v_pc = "validated"
     /\ C5_YearsReconcile
     /\ C5_SummariesAddUp
     /\ \A f \in AmountFieldSet : Abs(SumField(v_records, f) - SumField(v_summaries, f)) <= Tolerance
     /\ v_deductions.present =>
            Abs(v_totals.liquido - v_deductions.total_deducciones - v_totals.a_liquidar) <= Tolerance)
    => C5_AllValid

\* a validated two-year document, one year off by 0.01, that reconciles
C5_Witness ==
    /\ v_pc = "validated"
    /\ C5_YearsReconcile
    /\ C5_SummariesAddUp
    /\ C5_SummaryYears = ValYears
    /\ Len(v_records) = 2
    /\ C5_RecordYears = ValYears
    /\ SumField(v_records, "voluntaria") # SumField(v_summaries, "voluntaria")
    /\ v_deductions.present
    /\ C5_AllValid

(***************************************************************************)
(* Row Classifier and Record Assembler of the extractor.  A row is a        *)
(* sequence of cells; Python's row[i] is row[i + 1] here.                    *)
(***************************************************************************)
wCONCEPTO == <<"C","O","N","C","E","P","T","O">>
wCLAVE == <<"C","L","A","V","E">>
wTOTAL == <<"T","O","T","A","L">>
wEJERCICIO == <<"E","J","E","R","C","I","C","I","O">>
wTOTAL_EJERCICIO == wTOTAL \o <<" ">> \o wEJERCICIO

\* row[a:b]
Slice(row, a, b) == SubSeq(row, a + 1, IF b < Len(row) THEN b ELSE Len(row))

\* not str(cell).strip()
CellBlank(cell) == Strip(Str(cell)) = <<>>

\* str(cell).strip() if cell else ""
CellText(cell) == IF Truthy(cell) THEN Strip(Str(cell)) ELSE <<>>

\* str(cell) if cell else ""
CellStr(cell) == IF Truthy(cell) THEN Str(cell) ELSE <<>>

\* any(header in str(row[0]).upper() for header in ['CONCEPTO', 'CLAVE'])
IsHeaderRow(row) ==
    Contains(Upper(Str(row[1])), wCONCEPTO) \/ Contains(Upper(Str(row[1])), wCLAVE)

\* LiquidationPDFExtractor._is_partial_row
IsPartialRow(row) ==
    IF row = <<>> \/ Len(row) < 8 THEN FALSE
    ELSE LET first_cell == CellText(row[1])
             numeric_cells == IF Len(row) > 9 THEN Slice(row, 3, 10)
                              ELSE Slice(row, 3, Len(row))
             clave_cells == IF Len(row) > 2 THEN Slice(row, 1, 3) ELSE <<>>
         IN  IF first_cell = <<>> THEN FALSE
             ELSE IF \E keyword \in {wCONCEPTO, wCLAVE, wTOTAL_EJERCICIO} :
                        Contains(Upper(first_cell), keyword)
             THEN FALSE
             ELSE /\ \A i \in 1..Len(numeric_cells) : CellBlank(numeric_cells[i])
                  /\ \A i \in 1..Len(clave_cells) : CellBlank(clave_cells[i])

\* A plausible slip: the partial row's values taking precedence.
MergePartialRowPreferPartial(partial_row, continuation_row) ==
    LET partial_concept == CellText(partial_row[1])
        continuation_concept == CellText(continuation_row[1])
        max_len == IF Len(partial_row) > Len(continuation_row)
                   THEN Len(partial_row) ELSE Len(continuation_row)
        Val(r, i) == IF i <= Len(r) THEN CellText(r[i]) ELSE <<>>
    IN  [i \in 1..max_len |->
            IF i = 1
            THEN IF partial_concept # <<>> THEN partial_concept ELSE continuation_concept
            ELSE IF Val(partial_row, i) # <<>> THEN Val(partial_row, i)
                 ELSE Val(continuation_row, i)]

\* LiquidationPDFExtractor._merge_partial_row
MergePartialRow(partial_row, continuation_row) ==
    LET partial_concept == CellText(partial_row[1])
        continuation_concept == CellText(continuation_row[1])
        max_len == IF Len(partial_row) > Len(continuation_row)
                   THEN Len(partial_row) ELSE Len(continuation_row)
        Val(r, i) == IF i <= Len(r) THEN CellText(r[i]) ELSE <<>>
    IN  [i \in 1..max_len |->
            IF i = 1
            THEN IF partial_concept # <<>> /\ continuation_concept # <<>>
                 THEN partial_concept \o <<" ">> \o continuation_concept
                 ELSE IF partial_concept # <<>> THEN partial_concept
                 ELSE continuation_concept
            ELSE IF Val(continuation_row, i) # <<>> THEN Val(continuation_row, i)
                 ELSE Val(partial_row, i)]

\* has_data: any(str(cell).strip() ... for cell in numeric_cells)
HasData(row) ==
    LET numeric_cells == IF Len(row) >= 10 THEN Slice(row, 3, 10)
                         ELSE Slice(row, 3, Len(row))
    IN  \E i \in 1..Len(numeric_cells) : ~CellBlank(numeric_cells[i])

\* the column (counted from 1) each amount of a record is read from
AmountColumn ==
    [voluntaria |-> 4, ejecutiva |-> 5, recargo |-> 6, diputacion_voluntaria |-> 7,
     diputacion_ejecutiva |-> 8, diputacion_recargo |-> 9, liquido |-> 10]

\* the amount cells of a row, each through _parse_amount; a cell the row
\* does not have counts as zero (_parse_summary_row)
ParseAmounts(row) ==
    [f \in AmountFieldSet |->
        IF Len(row) >= AmountColumn[f] THEN Mils(ParseAmount(row[AmountColumn[f]])) ELSE 0]

\* TributeRecord(...)
TributeRecord(concepto, clave_contabilidad, clave_recaudacion, amounts, ejercicio) ==
    [concepto |-> concepto,
     clave_contabilidad |-> clave_contabilidad,
     clave_recaudacion |-> clave_recaudacion,
     voluntaria |-> amounts["voluntaria"],
     ejecutiva |-> amounts["ejecutiva"],
     recargo |-> amounts["recargo"],
     diputacion_voluntaria |-> amounts["diputacion_voluntaria"],
     diputacion_ejecutiva |-> amounts["diputacion_ejecutiva"],
     diputacion_recargo |-> amounts["diputacion_recargo"],
     liquido |-> amounts["liquido"],
     ejercicio |-> ejercicio]

\* LiquidationPDFExtractor._parse_tribute_row: the list of the record made
\* of the row, empty where the source returns None.
ParseTributeRow(row, ejercicio) ==
    IF Len(row) < 10 THEN <<>>
    ELSE LET concepto == CollapseSpaces(CellText(row[1]))
         IN  IF concepto = <<>> \/ Upper(concepto) \in {wCONCEPTO, wTOTAL} THEN <<>>
             ELSE << TributeRecord(concepto, CellText(row[2]), CellText(row[3]),
                                   ParseAmounts(row),
                                   InferYear(CellText(row[3]), CellText(row[2]), ejercicio)) >>

\* ExerciseSummary(...)
ExerciseSummary(ejercicio, amounts) ==
    [ejercicio |-> ejercicio,
     voluntaria |-> amounts["voluntaria"],
     ejecutiva |-> amounts["ejecutiva"],
     recargo |-> amounts["recargo"],
     diputacion_voluntaria |-> amounts["diputacion_voluntaria"],
     diputacion_ejecutiva |-> amounts["diputacion_ejecutiva"],
     diputacion_recargo |-> amounts["diputacion_recargo"],
     liquido |-> amounts["liquido"]]

\* LiquidationPDFExtractor._parse_summary_row
ParseSummaryRow(row, ejercicio) == ExerciseSummary(ejercicio, ParseAmounts(row))

\* where a match of r'\d{4}/[A-Z]/\d+' that starts at position i ends; 0 if
\* there is no match at i
KeyMatchEnd(s, i) ==
    IF /\ i + 7 <= Len(s)
       /\ AllDigits(SubSeq(s, i, i + 3))
       /\ s[i + 4] = "/"
       /\ IsUpperLetter(s[i + 5])
       /\ s[i + 6] = "/"
       /\ IsDigit(s[i + 7])
    THEN CHOOSE e \in (i + 7)..Len(s) :
            /\ AllDigits(SubSeq(s, i + 7, e))
            /\ (e = Len(s) \/ ~IsDigit(s[e + 1]))
    ELSE 0

RECURSIVE FindKeyPatterns(_, _)
\* re.findall(r'\d{4}/[A-Z]/\d+', s), scanning from position i
FindKeyPatterns(s, i) ==
    IF i > Len(s) THEN <<>>
    ELSE IF KeyMatchEnd(s, i) > 0
         THEN <<SubSeq(s, i, KeyMatchEnd(s, i))>> \o FindKeyPatterns(s, KeyMatchEnd(s, i) + 1)
         ELSE FindKeyPatterns(s, i + 1)

RECURSIVE RemoveSub(_, _)
\* s.replace(sub, ''), sub not empty
RemoveSub(s, sub) ==
    IF Len(s) < Len(sub) THEN s
    ELSE IF SubSeq(s, 1, Len(sub)) = sub
         THEN RemoveSub(SubSeq(s, Len(sub) + 1, Len(s)), sub)
         ELSE <<Head(s)>> \o RemoveSub(Tail(s), sub)

\* has_multiple_records: the accounting-key cell has a line break and more
\* than one key pattern
HasMultipleRecords(row) ==
    LET clave_cont_cell == CellStr(row[2])
    IN  /\ HasChar(clave_cont_cell, "\n")
        /\ Len(FindKeyPatterns(clave_cont_cell, 1)) > 1

\* A plausible slip: every cell split by lines, none replicated.
SplitMultiRecordRowNoReplication(row) ==
    LET num_records == Len(SplitLines(CellStr(row[2])))
    IN  [record_idx \in 1..num_records |->
            [c \in 1..Len(row) |->
                IF record_idx <= Len(SplitLines(CellStr(row[c])))
                THEN SplitLines(CellStr(row[c]))[record_idx]
                ELSE <<>>]]

\* The separate rows a multi-record row is split into.
SplitMultiRecordRow(row) ==
    LET num_records == Len(SplitLines(CellStr(row[2])))
        split_cells ==
            [c \in 1..Len(row) |->
                LET cell_str == CellStr(row[c])
                IN  IF HasChar(cell_str, "\n")
                    THEN IF c = 1
                         THEN [k \in 1..num_records |->
                                  Strip(JoinWith(SplitLines(cell_str), <<" ">>))]
                         ELSE SplitLines(cell_str)
                    ELSE [k \in 1..num_records |-> cell_str]]
    IN  [record_idx \in 1..num_records |->
            [c \in 1..Len(row) |->
                IF record_idx <= Len(split_cells[c])
                THEN split_cells[c][record_idx]
                ELSE <<>>]]

\* is_merged_row: a record and its TOTAL EJERCICIO line in one row
IsMergedRow(row) ==
    LET concepto_text == CellStr(row[1])
    IN  /\ HasChar(concepto_text, "\n")
        /\ Contains(Upper(concepto_text), wTOTAL)
        /\ Contains(Upper(concepto_text), wEJERCICIO)
        /\ Len(SplitLines(concepto_text)) > 2

IsTotalLine(line) == Contains(Upper(line), wTOTAL_EJERCICIO)

\* the accounting key recovered from the first concept line; "" if none
ExtractedKey(row) ==
    LET first_line == SplitLines(CellStr(row[1]))[1]
    IN  IF ~Truthy(row[2]) /\ FindKeyPatterns(first_line, 1) # <<>>
        THEN FindKeyPatterns(first_line, 1)[1]
        ELSE <<>>

\* concepto_lines after the recovered key is taken out of the first line
MergedConceptLines(row) ==
    LET lines == SplitLines(CellStr(row[1]))
    IN  IF ExtractedKey(row) # <<>>
        THEN [lines EXCEPT ![1] = Strip(RemoveSub(lines[1], ExtractedKey(row)))]
        ELSE lines

\* record_row of a concept+total merged row
MergedRecordRow(row) ==
    [c \in 1..Len(row) |->
        IF c = 1
        THEN JoinWith(SelectSeq(MergedConceptLines(row), LAMBDA l : ~IsTotalLine(l)), <<"\n">>)
        ELSE IF c = 2 /\ ExtractedKey(row) # <<>> THEN ExtractedKey(row)
        ELSE IF Truthy(row[c]) /\ HasChar(Str(row[c]), "\n")
             THEN SplitLines(Str(row[c]))[1]
             ELSE CellStr(row[c])]

\* total_row of a concept+total merged row
MergedTotalRow(row) ==
    [c \in 1..Len(row) |->
        IF c = 1
        THEN LET total_concepto_lines == SelectSeq(MergedConceptLines(row), IsTotalLine)
             IN  IF total_concepto_lines # <<>> THEN total_concepto_lines[1] ELSE <<>>
        ELSE IF c = 2 /\ ExtractedKey(row) # <<>> THEN <<>>
        ELSE IF Truthy(row[c]) /\ HasChar(Str(row[c]), "\n")
             THEN SplitLines(Str(row[c]))[2]
             ELSE <<>>]

\* a regular TOTAL row (exercise summary)
IsTotalRow(row) ==
    Contains(Upper(Str(row[1])), wTOTAL) /\ Contains(Upper(Str(row[1])), wEJERCICIO)

\* year_candidates of a TOTAL row that hold four digits in a row
TotalRowYearHits(row) ==
    LET year_candidates ==
            (IF Len(row) > 2 /\ Truthy(row[3]) THEN <<Str(row[3])>> ELSE <<>>)
            \o (IF Len(row) > 1 /\ Truthy(row[2]) THEN <<Str(row[2])>> ELSE <<>>)
            \o <<Str(row[1])>>
    IN  SelectSeq(year_candidates, LAMBDA c : MatchesFour(c) # {})

(***************************************************************************)
(* Row Reconstructor: the body of the row loop of _extract_tribute_records. *)
(* Its state st holds the extractor's fields (pending, last, replace) and   *)
(* the locals of the page (records, summaries, current_exercise).  With     *)
(* cells that are strings or None neither _parse_tribute_row nor            *)
(* _parse_summary_row raises, so the except branches are never entered.     *)
(***************************************************************************)
\* if record: tribute_records.append(record); self._last_processed_row = row
AppendRecord(st, row, record) ==
    IF record # <<>>
    THEN [st EXCEPT !.records = @ \o record, !.last = row]
    ELSE st

\* record = self._parse_tribute_row(row, current_exercise); if record: append
\* it and remember the row as the last processed one
EmitRecord(st, row) == AppendRecord(st, row, ParseTributeRow(row, st.current_exercise))

RECURSIVE EmitRecords(_, _)
\* the loop over the separate rows of a multi-record row
EmitRecords(st, rows) ==
    IF rows = <<>> THEN st ELSE EmitRecords(EmitRecord(st, Head(rows)), Tail(rows))

\* A plausible slip: the oldest record of the page discarded, not the newest.
DiscardOldestRecord(st) ==
    IF st.records = <<>>
    THEN [st EXCEPT !.replace = TRUE]
    ELSE [st EXCEPT !.records = Tail(@)]

\* the record of the anchor row is discarded: from the page's list or, when
\* that is empty, by the flag the page loop of extract() acts on
DiscardAnchorRecord(st) ==
    IF st.records = <<>>
    THEN [st EXCEPT !.replace = TRUE]
    ELSE [st EXCEPT !.records = SubSeq(@, 1, Len(@) - 1)]

\* A plausible slip: the merged record added without discarding the record
\* emitted for the anchor.
BackwardMergeKeepOriginal(st, row) == EmitRecord(st, MergePartialRow(st.last, row))

\* A plausible slip: the two rows handed to the merge in the wrong order.
BackwardMergeSwapped(st, row) ==
    EmitRecord(DiscardAnchorRecord(st), MergePartialRow(row, st.last))

\* Backward merge of a partial row into the last processed row.
BackwardMerge(st, row) ==
    EmitRecord(DiscardAnchorRecord(st), MergePartialRow(st.last, row))

\* the summary of a row whose year is read from year_text, if it holds one
AppendSummary(st, row, year_text) ==
    IF MatchesFour(year_text) # {}
    THEN [st EXCEPT !.summaries = Append(@, ParseSummaryRow(row, FirstFour(year_text))),
                    !.current_exercise = FirstFour(year_text)]
    ELSE st

\* the total of a concept+total merged row: if any(total_row), its year is
\* searched in total_row[2] (total_row[0] for a row of one or two cells)
AppendMergedTotal(st, total_row) ==
    IF \E c \in 1..Len(total_row) : total_row[c] # <<>>
    THEN AppendSummary(st, total_row,
                       IF Len(total_row) > 2 THEN total_row[3] ELSE total_row[1])
    ELSE st

\* The record and the summary of a concept+total merged row.
ProcessMergedRow(st, row) ==
    AppendMergedTotal(EmitRecord(st, MergedRecordRow(row)), MergedTotalRow(row))

\* the first of the year candidates that holds four digits in a row; one
\* without digits if none does
FirstYearHit(hits) == IF hits # <<>> THEN hits[1] ELSE <<>>

\* A plausible slip: the TOTAL row remembered as the last processed row.
ProcessTotalRowAsAnchor(st, row) ==
    [AppendSummary(st, row, FirstYearHit(TotalRowYearHits(row))) EXCEPT !.last = row]

\* The summary of a regular TOTAL row.
ProcessTotalRow(st, row) == AppendSummary(st, row, FirstYearHit(TotalRowYearHits(row)))

\* A plausible slip: a partial row stashed for a forward merge whether or not
\* there is an anchor.
ClassifyAndProcessStashFirst(st, row) ==
    IF IsHeaderRow(row) THEN st
    ELSE IF IsPartialRow(row) THEN [st EXCEPT !.pending = row]
    ELSE IF HasMultipleRecords(row) THEN EmitRecords(st, SplitMultiRecordRow(row))
    ELSE IF IsMergedRow(row) THEN ProcessMergedRow(st, row)
    ELSE IF IsTotalRow(row) THEN ProcessTotalRow(st, row)
    ELSE EmitRecord(st, row)

\* What a row that is not awaited by a pending partial row, or the merge of
\* the two, does.
ClassifyAndProcess(st, row) ==
    IF IsHeaderRow(row) THEN st
    ELSE IF IsPartialRow(row)
         THEN IF st.last # NoRow THEN BackwardMerge(st, row)
              ELSE [st EXCEPT !.pending = row]
    ELSE IF HasMultipleRecords(row) THEN EmitRecords(st, SplitMultiRecordRow(row))
    ELSE IF IsMergedRow(row) THEN ProcessMergedRow(st, row)
    ELSE IF IsTotalRow(row) THEN ProcessTotalRow(st, row)
    ELSE EmitRecord(st, row)

\* A plausible slip: a partial row that arrives while another is pending is
\* joined to the pending one.
ProcessRowJoinPending(st, row) ==
    IF row = <<>> \/ Len(row) < 8 THEN st
    ELSE IF st.pending # NoRow /\ IsHeaderRow(row) THEN st
    ELSE IF st.pending # NoRow /\ ~HasData(row)
         THEN [st EXCEPT !.pending = MergePartialRow(st.pending, row)]
    ELSE ClassifyAndProcess([st EXCEPT !.pending = NoRow],
                            IF st.pending # NoRow THEN MergePartialRow(st.pending, row)
                            ELSE row)

\* One iteration of `for row in table`: the row is skipped when it is short
\* or, while a partial row is pending, a header or without data; a row with
\* data is merged with the pending partial row, which is cleared.
ProcessRow(st, row) ==
    IF row = <<>> \/ Len(row) < 8 THEN st
    ELSE IF st.pending # NoRow /\ (IsHeaderRow(row) \/ ~HasData(row)) THEN st
    ELSE ClassifyAndProcess([st EXCEPT !.pending = NoRow],
                            IF st.pending # NoRow THEN MergePartialRow(st.pending, row)
                            ELSE row)

\* the row takes the backward-merge branch
IsBackwardMerge(st, row) ==
    /\ Len(row) >= 8
    /\ st.pending = NoRow
    /\ ~IsHeaderRow(row)
    /\ IsPartialRow(row)
    /\ st.last # NoRow

(***************************************************************************)
(* Pages.  A page is what the table detector gives for it: it throws, or    *)
(* it yields tables.  The pages of the model have at most one table of data *)
(* rows and at most one TOTAL table of two rows; their text holds the       *)
(* header fields and no "A LIQUIDAR" line.                                  *)
(***************************************************************************)
\* page.extract_tables(...) of a page that does not throw
PageTables(page) ==
    (IF page.rows # <<>> THEN <<page.rows>> ELSE <<>>)
    \o (IF page.totals_cell # None
        THEN << << <<wTOTAL>>, <<page.totals_cell>> >> >>
        ELSE <<>>)

RECURSIVE Flatten(_)
\* the rows in the order `for table in tables: for row in table` visits them
Flatten(tables) == IF tables = <<>> THEN <<>> ELSE Head(tables) \o Flatten(Tail(tables))

PageRows(page) == Flatten(PageTables(page))

\* the cells of second_row that qualify as the multi-line totals cell
MultilineCells(table) ==
    SelectSeq(table[2], LAMBDA cell :
        /\ Truthy(cell)
        /\ HasChar(Str(cell), "\n")
        /\ Contains(Upper(Str(cell)), wVOLUNTARIA)
        /\ Contains(Upper(Str(cell)), wEJECUTIVA))

\* the structure test of _find_and_extract_totals
IsTotalsTable(table) ==
    /\ Len(table) >= 2
    /\ \E c \in 1..Len(table[1]) :
          Truthy(table[1][c]) /\ Contains(Upper(Str(table[1][c])), wTOTAL)
    /\ MultilineCells(table) # <<>>

\* DeductionDetail(): what _extract_page2_data gives for a page whose text
\* and tables name no deduction
EmptyDeductions == [present |-> TRUE, total_deducciones |-> 0]

RECURSIVE FindTotalsFrom(_, _)
\* _find_and_extract_totals from page i on: the detector is called on every
\* page until a TOTAL table is found; raised when it throws
FindTotalsFrom(pages, i) ==
    IF i > Len(pages)
    THEN [raised |-> FALSE, totals |-> ZeroTotals, deductions |-> NoDeductions]
    ELSE IF pages[i].throws
    THEN [raised |-> TRUE, totals |-> ZeroTotals, deductions |-> NoDeductions]
    ELSE LET found == SelectSeq(PageTables(pages[i]), IsTotalsTable)
         IN  IF found # <<>>
             THEN [raised |-> FALSE,
                   totals |-> ParseTotalsLines(ZeroTotals,
                                  SplitLines(Str(MultilineCells(found[1])[1]))),
                   deductions |-> EmptyDeductions]
             ELSE FindTotalsFrom(pages, i + 1)

\* A plausible slip: a missing TOTAL table treated as a failure.
FindAndExtractTotalsStrict(pages) ==
    IF FindTotalsFrom(pages, 1).deductions = NoDeductions
    THEN [raised |-> TRUE, totals |-> ZeroTotals, deductions |-> NoDeductions]
    ELSE FindTotalsFrom(pages, 1)

\* LiquidationPDFExtractor._find_and_extract_totals
FindAndExtractTotals(pages) == FindTotalsFrom(pages, 1)

\* the refund step of extract(): the detector is called on the last page
\* and, when that throws, on pages[2]; TRUE when the step raises
RefundsRaise(pages) ==
    /\ Len(pages) >= 3
    /\ pages[Len(pages)].throws
    /\ pages[3].throws

\* A plausible slip: the final page processed like the others.
PagesToProcessAll(num_pages) == num_pages

\* pages_to_process
PagesToProcess(num_pages) == IF num_pages > 1 THEN num_pages - 1 ELSE num_pages

\* A plausible slip: the anchor row surviving from one extraction to the next.
ResetFieldsKeepAnchor(last) ==
    [pending |-> NoRow, last |-> last, replace |-> FALSE]

\* the reset at the start of extract()
ResetFields(last) ==
    [pending |-> NoRow, last |-> NoRow, replace |-> FALSE]

\* A plausible slip: the replace flag ignored by the page loop.
ExtendRecordsKeepLast(records, replace, found) == records \o found

\* The page's records joined to the document's, after the last record is
\* dropped when a cross-page backward merge asks for it.
ExtendRecords(records, replace, found) ==
    (IF replace /\ records # <<>> THEN SubSeq(records, 1, Len(records) - 1) ELSE records)
    \o found

(***************************************************************************)
(* The documents of the model: pages and rows put together from samples.    *)
(***************************************************************************)
tFOO == <<"F","O","O">>
tBAR == <<"B","A","R">>
tMULTAS == <<"M","U","L","T","A","S">>
aZero == <<"0",",","0","0">>
aOne == <<"1",",","0","0">>
aTwoFifty == <<"2",",","5","0">>
aThousands == <<"1",".","2","3","4",",","5","6">>
aThreeLines == <<"1",",","0","0","\n","2",",","5","0","\n","3",",","0","0">>
aTwoLines == <<"1",",","0","0","\n","2",",","5","0">>
kThreeKeys == <<"2","0","2","4","/","M","/","1","\n",
                "2","0","2","4","/","M","/","2","\n",
                "2","0","2","4","/","M","/","3">>

\* a complete data row; its accounting key names another year than its
\* collection key
rData == <<tBAR, kc2023, k026_2024, aOne, aTwoFifty, aZero, aZero, aZero, aZero, aThousands>>
\* a row of data without concept and without a year in its keys
rCont == <<<<>>, <<>>, kNoDigits, aTwoFifty, aOne, aZero, aZero, aZero, aZero, aTwoFifty>>
\* a complete data row without a year in its keys
rNoYear == <<tFOO, <<>>, kNoDigits, aTwoFifty, aOne, aZero, aZero, aZero, aZero, aTwoFifty>>
\* a concept-only row
rPartial == <<tFOO \o <<" ">>, <<>>, <<>>, <<>>, <<" ">>, <<>>, <<>>, <<>>, <<>>, <<>>>>
\* three records in one row: amounts by line, shared, and one line short
rMulti == <<tMULTAS, kThreeKeys, k026_2024, aThreeLines, aTwoFifty, aTwoLines,
            aZero, aZero, aZero, aOne>>
\* the same with the concept cell absent
rMultiNoConcept == <<None, kThreeKeys, k026_2024, aThreeLines, aTwoFifty, aTwoLines,
                     aZero, aZero, aZero, aOne>>
\* a TOTAL EJERCICIO row of the year 2022
rTotal == <<wTOTAL_EJERCICIO, <<>>, <<"2","0","2","2">>, aOne, aTwoFifty, aZero,
            aZero, aZero, aZero, aThousands>>
rHeader == <<wCONCEPTO, wCLAVE, wCLAVE, <<>>, <<>>, <<>>, <<>>, <<>>, <<>>, <<>>>>
\* a record and its total glued together by the detector
rMergedTotal ==
    <<tBAR \o <<" ">> \o kc2025 \o <<"\n">> \o tFOO \o <<"\n">> \o wTOTAL_EJERCICIO,
      None, k026_2023 \o <<"\n","2","0","2","3">>, aTwoLines, aTwoLines, aZero,
      aZero, aZero, aZero, aTwoLines>>

\* a record and its total glued together, the year standing in the total
\* line of the concept cell and the collection-key cell holding one line
rMergedYear ==
    <<tBAR \o <<"\n">> \o tFOO \o <<"\n">> \o wTOTAL_EJERCICIO \o <<" ","2","0","2","2">>,
      kc2023, k026_2024, aTwoLines, aTwoLines, aZero, aZero, aZero, aZero, aTwoLines>>
\* a concept-only row with a note in a cell beyond the amount columns
rPartialWide == <<tFOO, <<>>, <<>>, <<>>, <<>>, <<>>, <<>>, <<>>, <<>>, <<" ">>, <<"x"," ">>>>
\* a row with a concept and every other cell absent
rAbsent == <<tBAR, None, None, None, None, None, None, None, None, None>>
\* a row of totals without amounts whose label has a word between TOTAL and
\* EJERCICIO
rTotalDel ==
    <<wTOTAL \o <<" ","D","E","L"," ">> \o wEJERCICIO \o <<" ","2","0","2","2">>,
      <<>>, <<>>, <<>>, <<>>, <<>>, <<>>, <<>>, <<>>, <<>>>>

\* The documents come in four families: rows split over rows and pages, rows
\* the detector glued together, rows of totals, and pages or files that
\* fail.
Families == {"merge", "split", "total", "failure"}

RowSamples(f) ==
    IF f = "merge" THEN {rData, rCont, rPartial, rHeader}
    ELSE IF f = "split" THEN {rMulti, rMultiNoConcept, rPartial}
    ELSE IF f = "total" THEN {rTotal, rMergedTotal, rNoYear}
    ELSE IF f = "mergedtotal" THEN {rMergedYear, rMergedTotal}
    ELSE IF f = "absent" THEN {rPartial, rAbsent, rData}
    ELSE IF f = "anchor" THEN {rData, rTotal, rPartialWide, rTotalDel}
    ELSE {rData}

\* the multi-line cell of a TOTAL table
cTotals == lVol100 \o <<"\n">> \o lEje20 \o <<"\n">> \o lDipVol10

ThrowingPage == [throws |-> TRUE, rows |-> <<>>, totals_cell |-> None]
EmptyPage == [throws |-> FALSE, rows |-> <<>>, totals_cell |-> None]
TotalsPage == [throws |-> FALSE, rows |-> <<>>, totals_cell |-> cTotals]
PageSamples(f) ==
    IF f = "failure" THEN {ThrowingPage, EmptyPage, TotalsPage} ELSE {EmptyPage}

MaxPages == 3
MaxRows == 3

RECURSIVE RowCount(_)
RowCount(pages) ==
    IF pages = <<>> THEN 0 ELSE Len(Head(pages).rows) + RowCount(Tail(pages))

\* the source path: absent, not a readable PDF, or a PDF
Files == {"missing", "unreadable", "ok"}

(***************************************************************************)
(* Harness of the row classifier and the record assembler: a row is put     *)
(* together from a first cell, a filling for the other cells and one cell   *)
(* of its own at some place, then classified, then assembled.               *)
(***************************************************************************)
aNegative == <<"-","5",",","0","0">>
RowLengths == {7, 8, 9, 10, 11}
FirstCells == {tFOO, <<" ">> \o tFOO \o <<" ">>, <<>>, <<" ">>, None, wCONCEPTO,
               wTOTAL_EJERCICIO, wTOTAL}
FillCells == {<<>>, <<" ">>, None, aOne}
OwnCells == {<<>>, aTwoFifty, aNegative, kc2023}

RInit ==
    /\ r_pc = "pick"
    /\ r_row = <<>>
    /\ r_partial = FALSE
    /\ r_record = <<>>
    /\ AIdle
    /\ YIdle
    /\ TIdle
    /\ VIdle
    /\ EIdle
    /\ XIdle

RPickRow ==
    /\ r_pc = "pick"
    /\ \E n \in RowLengths, first_cell \in FirstCells, fill \in FillCells,
          place \in 2..11, own \in OwnCells :
          r_row' = [i \in 1..n |-> IF i = 1 THEN first_cell
                                   ELSE IF i = place THEN own ELSE fill]
    /\ r_pc' = "row"
    /\ UNCHANGED <<r_partial, r_record, amountVars, yearVars, totalsVars, validVars,
                   engineVars, pairVars>>

\* self._is_partial_row(row)
RClassify ==
    /\ r_pc = "row"
    /\ r_partial' = IsPartialRow(r_row)
    /\ r_pc' = "classified"
    /\ UNCHANGED <<r_row, r_record, amountVars, yearVars, totalsVars, validVars,
                   engineVars, pairVars>>

\* self._parse_tribute_row(row, None)
RParse ==
    /\ r_pc = "classified"
    /\ r_record' = ParseTributeRow(r_row, NoYear)
    /\ r_pc' = "parsed"
    /\ UNCHANGED <<r_row, r_partial, amountVars, yearVars, totalsVars, validVars,
                   engineVars, pairVars>>

RNext == RPickRow \/ RClassify \/ RParse

SpecRow == RInit /\ [][RNext]_vars

(***************************************************************************)
(* The extractor as a state machine: a PDF is put together, an extractor    *)
(* is constructed for it, extract() runs page by page and row by row, and   *)
(* runs a second time on the same extractor.                                *)
(***************************************************************************)
\* the state the row loop works on
RowState ==
    [pending |-> pending_partial_row, last |-> last_processed_row,
     replace |-> replace_last_record, records |-> page_records,
     summaries |-> page_summaries, current_exercise |-> current_exercise]

CurrentPage == pdf[page_idx + 1]
CurrentRow == PageRows(CurrentPage)[row_idx]

\* what extract() hands to its caller
Result ==
    IF outcome = "document"
    THEN [outcome |-> outcome, tribute_records |-> tribute_records,
          exercise_summaries |-> exercise_summaries, totals |-> doc_totals,
          deductions |-> doc_deductions]
    ELSE [outcome |-> outcome, tribute_records |-> <<>>, exercise_summaries |-> <<>>,
          totals |-> ZeroTotals, deductions |-> NoDeductions]

\* the state before a document of the family f is put together
InitFamily(f) ==
    /\ family = f
    /\ file = "ok"
    /\ pdf = <<>>
    /\ pc = "build"
    /\ outcome = "none"
    /\ run = 0
    /\ first = NoResult
    /\ pending_partial_row = NoRow
    /\ last_processed_row = NoRow
    /\ replace_last_record = FALSE
    /\ page_idx = 0
    /\ tribute_records = <<>>
    /\ exercise_summaries = <<>>
    /\ doc_totals = ZeroTotals
    /\ doc_deductions = NoDeductions
    /\ row_idx = 0
    /\ page_records = <<>>
    /\ page_summaries = <<>>
    /\ current_exercise = NoYear
    /\ merge_log = NoMerge
    /\ emitted = 0
    /\ prev_row = NoRow
    /\ fed = <<>>
    /\ AIdle
    /\ YIdle
    /\ TIdle
    /\ VIdle
    /\ RIdle
    /\ XIdle

Init == \E f \in Families : InitFamily(f)

otherVars == <<amountVars, yearVars, totalsVars, validVars, rowVars, pairVars>>

\* the PDF gets one more page
AddPage ==
    /\ pc = "build"
    /\ Len(pdf) < MaxPages
    /\ \E page \in PageSamples(family) : pdf' = Append(pdf, page)
    /\ UNCHANGED <<family, file, pc, outcome, run, first, fieldVars, extractVars, pageVars,
                   historyVars, otherVars>>

\* the last page's table gets one more row (the page that fills the document
\* is its last one, whose rows the row loop never reads)
AddRow ==
    /\ pc = "build"
    /\ pdf # <<>>
    /\ ~pdf[Len(pdf)].throws
    /\ Len(pdf) < MaxPages
    /\ RowCount(pdf) < MaxRows
    /\ \E row \in RowSamples(family) :
          pdf' = [pdf EXCEPT ![Len(pdf)].rows = Append(@, row)]
    /\ UNCHANGED <<family, file, pc, outcome, run, first, fieldVars, extractVars, pageVars,
                   historyVars, otherVars>>

\* LiquidationPDFExtractor.__init__
Construct ==
    /\ pc = "build"
    /\ \E f \in Files :
          /\ f # "ok" => pdf = <<>>
          /\ file' = f
          /\ IF f = "missing"
             THEN /\ pc' = "raised"
                  /\ outcome' = "FileNotFoundError"
             ELSE /\ pc' = "ready"
                  /\ outcome' = "none"
    /\ run' = 1
    /\ pending_partial_row' = NoRow
    /\ last_processed_row' = NoRow
    /\ replace_last_record' = FALSE
    /\ UNCHANGED <<family, pdf, first, extractVars, pageVars, historyVars, otherVars>>

\* extract() up to the page loop
StartExtract ==
    /\ pc = "ready"
    /\ IF file = "unreadable"
       THEN /\ pc' = "raised"
            /\ outcome' = "PDFExtractionError"
            /\ UNCHANGED <<fieldVars, extractVars, historyVars>>
       ELSE /\ pending_partial_row' = ResetFields(last_processed_row).pending
            /\ last_processed_row' = ResetFields(last_processed_row).last
            /\ replace_last_record' = ResetFields(last_processed_row).replace
            /\ page_idx' = 0
            /\ tribute_records' = <<>>
            /\ exercise_summaries' = <<>>
            /\ doc_totals' = ZeroTotals
            /\ doc_deductions' = NoDeductions
            /\ merge_log' = NoMerge
            /\ emitted' = 0
            /\ prev_row' = NoRow
            /\ fed' = <<>>
            /\ IF pdf = <<>>
               THEN /\ pc' = "raised"
                    /\ outcome' = "PDFExtractionError"
               ELSE /\ pc' = "pages"
                    /\ UNCHANGED outcome
    /\ UNCHANGED <<family, file, pdf, run, first, pageVars, otherVars>>

\* _extract_tribute_records raises: the detector throws or finds no table
PageFails ==
    /\ pc = "pages"
    /\ page_idx < PagesToProcess(Len(pdf))
    /\ CurrentPage.throws \/ PageTables(CurrentPage) = <<>>
    /\ page_idx' = page_idx + 1
    /\ UNCHANGED <<family, file, pdf, pc, outcome, run, first, fieldVars, tribute_records,
                   exercise_summaries, doc_totals, doc_deductions, pageVars, historyVars,
                   otherVars>>

\* _extract_tribute_records up to the row loop
BeginPage ==
    /\ pc = "pages"
    /\ page_idx < PagesToProcess(Len(pdf))
    /\ ~CurrentPage.throws
    /\ PageTables(CurrentPage) # <<>>
    /\ pc' = "rows"
    /\ row_idx' = 1
    /\ page_records' = <<>>
    /\ page_summaries' = <<>>
    /\ current_exercise' = NoYear
    /\ UNCHANGED <<family, file, pdf, outcome, run, first, fieldVars, extractVars,
                   historyVars, otherVars>>

\* one row of the page
NextRow ==
    /\ pc = "rows"
    /\ row_idx <= Len(PageRows(CurrentPage))
    /\ \E after \in {ProcessRow(RowState, CurrentRow)},
          backward \in {IsBackwardMerge(RowState, CurrentRow)} :
           /\ pending_partial_row' = after.pending
           /\ last_processed_row' = after.last
           /\ replace_last_record' = after.replace
           /\ page_records' = after.records
           /\ page_summaries' = after.summaries
           /\ current_exercise' = after.current_exercise
           /\ emitted' = IF backward THEN emitted
                         ELSE emitted + Len(after.records) - Len(page_records)
           /\ merge_log' =
                 IF backward /\ page_records = <<>>
                 THEN [page |-> page_idx + 1, index |-> Len(tribute_records),
                       original |-> IF tribute_records = <<>> THEN <<>>
                                    ELSE <<tribute_records[Len(tribute_records)]>>,
                       anchor |-> last_processed_row, partial |-> CurrentRow,
                       extended |-> FALSE]
                 ELSE IF backward /\ merge_log.page = page_idx + 1 /\ Len(page_records) = 1
                 THEN [merge_log EXCEPT !.extended = TRUE]
                 ELSE merge_log
    /\ prev_row' = CurrentRow
    /\ fed' = Append(fed, <<page_idx + 1, row_idx>>)
    /\ row_idx' = row_idx + 1
    /\ UNCHANGED <<family, file, pdf, pc, outcome, run, first, extractVars, otherVars>>

\* the page's records and summaries join the document's
EndPage ==
    /\ pc = "rows"
    /\ row_idx > Len(PageRows(CurrentPage))
    /\ tribute_records' = ExtendRecords(tribute_records, replace_last_record, page_records)
    /\ replace_last_record' =
          IF replace_last_record /\ tribute_records # <<>> THEN FALSE
          ELSE replace_last_record
    /\ exercise_summaries' = exercise_summaries \o page_summaries
    /\ page_idx' = page_idx + 1
    /\ pc' = "pages"
    /\ UNCHANGED <<family, file, pdf, outcome, run, first, pending_partial_row,
                   last_processed_row, doc_totals, doc_deductions, pageVars, historyVars,
                   otherVars>>

\* the totals step of extract()
ExtractTotals ==
    /\ pc = "pages"
    /\ page_idx = PagesToProcess(Len(pdf))
    /\ IF Len(pdf) >= 2 /\ FindAndExtractTotals(pdf).raised
       THEN /\ pc' = "raised"
            /\ outcome' = "PDFExtractionError"
            /\ UNCHANGED <<doc_totals, doc_deductions>>
       ELSE /\ pc' = "refunds"
            /\ doc_totals' = IF Len(pdf) >= 2 THEN FindAndExtractTotals(pdf).totals
                             ELSE ZeroTotals
            /\ doc_deductions' = IF Len(pdf) >= 2 THEN FindAndExtractTotals(pdf).deductions
                                 ELSE NoDeductions
            /\ UNCHANGED outcome
    /\ UNCHANGED <<family, file, pdf, run, first, fieldVars, page_idx, tribute_records,
                   exercise_summaries, pageVars, historyVars, otherVars>>

\* the refund step of extract() and the construction of the document
BuildDocument ==
    /\ pc = "refunds"
    /\ IF RefundsRaise(pdf)
       THEN /\ pc' = "raised"
            /\ outcome' = "PDFExtractionError"
       ELSE /\ pc' = "done"
            /\ outcome' = "document"
    /\ UNCHANGED <<family, file, pdf, run, first, fieldVars, extractVars, pageVars,
                   historyVars, otherVars>>

\* extract() is called once more on the same extractor
ExtractAgain ==
    /\ pc \in {"done", "raised"}
    /\ run = 1
    /\ outcome # "FileNotFoundError"
    /\ first' = Result
    /\ run' = 2
    /\ pc' = "ready"
    /\ outcome' = "none"
    /\ UNCHANGED <<family, file, pdf, fieldVars, extractVars, pageVars, historyVars, otherVars>>

Next ==
    \/ AddPage
    \/ AddRow
    \/ Construct
    \/ StartExtract
    \/ PageFails
    \/ BeginPage
    \/ NextRow
    \/ EndPage
    \/ ExtractTotals
    \/ BuildDocument
    \/ ExtractAgain

Spec == Init /\ [][Next]_vars
SpecMerge == InitFamily("merge") /\ [][Next]_vars
SpecSplit == InitFamily("split") /\ [][Next]_vars
SpecTotal == InitFamily("total") /\ [][Next]_vars
SpecFailure == InitFamily("failure") /\ [][Next]_vars
\* documents made to try one kind of row against the rows around it
SpecMergedTotal == InitFamily("mergedtotal") /\ [][Next]_vars
SpecAnchor == InitFamily("anchor") /\ [][Next]_vars
SpecAbsent == InitFamily("absent") /\ [][Next]_vars

(***************************************************************************)
(* Two extractors side by side: each is constructed for its own document    *)
(* and runs extract(); the steps of the two runs (the start of extract(),   *)
(* one page of the page loop, the totals and the construction of the        *)
(* document) are interleaved in any order.                                  *)
(***************************************************************************)
Instances == {1, 2}

RowsPage(rows) == [throws |-> FALSE, rows |-> rows, totals_cell |-> None]
PairRows == {<<rData>>, <<rPartial>>, <<rData, rPartial>>}
PairDocs == {<<RowsPage(rows1), RowsPage(rows2), last>> :
                rows1 \in PairRows, rows2 \in PairRows, last \in {EmptyPage, TotalsPage}}

\* LiquidationPDFExtractor(pdf_path): the object after __init__
NewExtractor(pages) ==
    [pdf |-> pages, pc |-> "ready", page_idx |-> 0,
     pending_partial_row |-> NoRow, last_processed_row |-> NoRow,
     replace_last_record |-> FALSE,
     tribute_records |-> <<>>, exercise_summaries |-> <<>>, totals |-> ZeroTotals]

RECURSIVE ProcessRows(_, _)
\* the row loop of _extract_tribute_records
ProcessRows(st, rows) ==
    IF rows = <<>> THEN st ELSE ProcessRows(ProcessRow(st, Head(rows)), Tail(rows))

\* self._extract_tribute_records(page) of a page that yields tables
ExtractTributeRecords(ext, page) ==
    ProcessRows([pending |-> ext.pending_partial_row, last |-> ext.last_processed_row,
                 replace |-> ext.replace_last_record, records |-> <<>>,
                 summaries |-> <<>>, current_exercise |-> NoYear],
                PageRows(page))

\* the rest of the loop body of extract(): the page's records and summaries
\* join the document's
JoinPage(ext, after) ==
    [ext EXCEPT !.pending_partial_row = after.pending,
                !.last_processed_row = after.last,
                !.replace_last_record =
                    IF after.replace /\ ext.tribute_records # <<>> THEN FALSE
                    ELSE after.replace,
                !.tribute_records = ExtendRecords(@, after.replace, after.records),
                !.exercise_summaries = @ \o after.summaries,
                !.page_idx = @ + 1]

\* one iteration of the page loop of extract()
ExtractPage(ext, page) ==
    IF page.throws \/ PageTables(page) = <<>> THEN [ext EXCEPT !.page_idx = @ + 1]
    ELSE JoinPage(ext, ExtractTributeRecords(ext, page))

\* the next step of an extractor's extract()
ExtractStep(ext) ==
    IF ext.pc = "ready"
    THEN [ext EXCEPT !.pc = "pages", !.page_idx = 0,
                     !.pending_partial_row = ResetFields(ext.last_processed_row).pending,
                     !.last_processed_row = ResetFields(ext.last_processed_row).last,
                     !.replace_last_record = ResetFields(ext.last_processed_row).replace,
                     !.tribute_records = <<>>, !.exercise_summaries = <<>>,
                     !.totals = ZeroTotals]
    ELSE IF ext.page_idx < PagesToProcess(Len(ext.pdf))
    THEN ExtractPage(ext, ext.pdf[ext.page_idx + 1])
    ELSE [ext EXCEPT !.pc = "done",
                     !.totals = IF Len(ext.pdf) >= 2 THEN FindAndExtractTotals(ext.pdf).totals
                                ELSE ZeroTotals]

\* A plausible slip: the three fields declared on the class and so shared by
\* all extractors.
FieldsOwnerShared(i) == 1

\* The object whose attributes an extractor's methods read and write as
\* self._pending_partial_row, self._last_processed_row and
\* self._replace_last_record: the extractor itself.
FieldsOwner(i) == i

\* ext with the three fields as they stand in holder
WithFields(ext, holder) ==
    [ext EXCEPT !.pending_partial_row = holder.pending_partial_row,
                !.last_processed_row = holder.last_processed_row,
                !.replace_last_record = holder.replace_last_record]

\* extractor i has taken a step that left it as `after`, its fields being
\* those of `owner`
Commit(i, owner, after) ==
    extractors' = [j \in Instances |->
        IF j = owner THEN WithFields(IF j = i THEN after ELSE extractors[j], after)
        ELSE IF j = i THEN WithFields(after, extractors[i])
        ELSE extractors[j]]

\* extractor i takes its next step
TakeStep(i) ==
    /\ Commit(i, FieldsOwner(i),
              ExtractStep(WithFields(extractors[i], extractors[FieldsOwner(i)])))
    /\ UNCHANGED <<amountVars, yearVars, totalsVars, validVars, engineVars, rowVars>>

XInit ==
    /\ \E pages1 \in PairDocs, pages2 \in PairDocs :
          extractors = [i \in Instances |->
                           NewExtractor(IF i = 1 THEN pages1 ELSE pages2)]
    /\ AIdle
    /\ YIdle
    /\ TIdle
    /\ VIdle
    /\ EIdle
    /\ RIdle

\* extract() up to the page loop
XStartExtract(i) ==
    /\ extractors[i].pc = "ready"
    /\ TakeStep(i)

\* one page of the page loop
XExtractPage(i) ==
    /\ extractors[i].pc = "pages"
    /\ extractors[i].page_idx < PagesToProcess(Len(extractors[i].pdf))
    /\ TakeStep(i)

\* the totals step and the construction of the document
XBuildDocument(i) ==
    /\ extractors[i].pc = "pages"
    /\ extractors[i].page_idx = PagesToProcess(Len(extractors[i].pdf))
    /\ TakeStep(i)

XNext == \E i \in Instances : XStartExtract(i) \/ XExtractPage(i) \/ XBuildDocument(i)

SpecPair == XInit /\ [][XNext]_vars

(***************************************************************************)
(* Properties of the extractor.                                             *)
(***************************************************************************)
\* a step of the row loop
RowStep == pc = "rows" /\ pc' = "rows" /\ row_idx' = row_idx + 1

\* C1: when a partial row is merged backward across a page boundary, the
\* record emitted for the anchor row R is no longer in the final list; in
\* its place stands one record with R's keys and amounts and the concept
\* "R.concept P.concept"; and the list is as long as if the partial row had
\* not been there.  (An anchor row excludes a pending partial row, so a
\* partial row that follows a record is always merged backward.)
C1_BackwardCrossPageMerge ==
    /\ last_processed_row # NoRow => pending_partial_row = NoRow
    /\ (pc = "done" /\ merge_log.page # 0) =>
          /\ merge_log.original # <<>>
          /\ merge_log.index <= Len(tribute_records)
          /\ LET original == merge_log.original[1]
                 merged == tribute_records[merge_log.index]
                 combined == original.concepto \o <<" ">>
                                \o CollapseSpaces(Strip(Str(merge_log.partial[1])))
             IN  /\ merged # original
                 /\ merged.clave_contabilidad = original.clave_contabilidad
                 /\ merged.clave_recaudacion = original.clave_recaudacion
                 /\ \A f \in AmountFieldSet : merged[f] = original[f]
                 /\ IF merge_log.extended
                    THEN StartsWith(merged.concepto, combined \o <<" ">>)
                    ELSE merged.concepto = combined
          /\ Len(tribute_records) = emitted

\* a data row ended page 1, a partial row began page 2, and the document
\* is complete
C1_Witness ==
    /\ pc = "done"
    /\ run = 1
    /\ Len(pdf) = 3
    /\ pdf[1].rows = <<rData>>
    /\ pdf[2].rows = <<rPartial>>
    /\ merge_log.page = 2
    /\ Len(tribute_records) = 1
    /\ tribute_records[1].concepto = tBAR \o <<" ">> \o tFOO

\* the concept of the record made of a partial row and its continuation
C2_JoinedConcept(partial_row, continuation_row) ==
    CollapseSpaces(Strip(CellText(partial_row[1]) \o <<" ">>
                         \o CellText(continuation_row[1])))

\* a continuation row in the sense of C2: at least ten cells of one line
\* each, an amount cell with text in it, not a header; and the joined
\* concept is neither the word TOTAL nor a total label
C2_IsContinuation(partial_row, row) ==
    /\ Len(row) >= 10
    /\ \E c \in 4..10 : CellText(row[c]) # <<>>
    /\ ~IsHeaderRow(row)
    /\ \A c \in 1..Len(row) : ~HasChar(Str(row[c]), "\n")
    /\ LET concepto == Upper(C2_JoinedConcept(partial_row, row))
       IN  /\ concepto # wTOTAL
           /\ ~(Contains(concepto, wTOTAL) /\ Contains(concepto, wEJERCICIO))

\* the step adds exactly one record: the partial row's concept followed by
\* the continuation's, with the continuation's amounts
C2_OneMergedRecord(partial_row, continuation_row) ==
    /\ Len(page_records') = Len(page_records) + 1
    /\ SubSeq(page_records', 1, Len(page_records)) = page_records
    /\ LET record == page_records'[Len(page_records')]
       IN  /\ record.concepto = C2_JoinedConcept(partial_row, continuation_row)
           /\ \A f \in AmountFieldSet :
                 record[f] = Mils(ParseAmount(continuation_row[AmountColumn[f]]))

\* C2 as stated: whenever a partial row is immediately followed by a
\* continuation row, the two make exactly one record with the joined concept
\* and the continuation's amounts.
C2_AsStated ==
    [][(RowStep /\ IsPartialRow(prev_row) /\ C2_IsContinuation(prev_row, CurrentRow))
          => C2_OneMergedRecord(prev_row, CurrentRow)]_vars

\* C2: a partial row that was stored as the pending row (no record had been
\* emitted before it, nothing else was pending) and is immediately followed
\* by a continuation row makes exactly one record with it: the joined
\* concept and the continuation's amounts.
C2_ForwardMerge ==
    [][(/\ RowStep
        /\ IsPartialRow(prev_row)
        /\ pending_partial_row = prev_row
        /\ C2_IsContinuation(prev_row, CurrentRow))
          => C2_OneMergedRecord(prev_row, CurrentRow)]_vars

\* a partial row that ended page 1 has been merged with the data row that
\* began page 2
C2_Witness ==
    /\ pc = "rows"
    /\ run = 1
    /\ page_idx = 1
    /\ pdf[1].rows = <<rPartial>>
    /\ prev_row = rData
    /\ row_idx = 2
    /\ pending_partial_row = NoRow
    /\ Len(page_records) = 1
    /\ page_records[1].concepto = tFOO \o <<" ">> \o tBAR
    /\ page_records[1].liquido = 1234560

\* the accounting-key cell holds exactly three lines, each one key pattern
C3_ThreeKeys(row) ==
    /\ Len(row) >= 8
    /\ LET lines == SplitLines(CellStr(row[2]))
       IN  /\ Len(lines) = 3
           /\ \A i \in 1..3 : FindKeyPatterns(lines[i], 1) = <<lines[i]>>

\* the amount the i-th record of a split row gets from a cell
C3_AmountOf(cell, i) ==
    IF HasChar(CellStr(cell), "\n")
    THEN IF i <= Len(SplitLines(CellStr(cell)))
         THEN Mils(ParseAmount(SplitLines(CellStr(cell))[i]))
         ELSE 0
    ELSE Mils(ParseAmount(cell))

\* the step adds exactly three records with the three keys and the amounts
\* by line or replicated
C3_ThreeRecords(row) ==
    /\ Len(page_records') = Len(page_records) + 3
    /\ SubSeq(page_records', 1, Len(page_records)) = page_records
    /\ \A i \in 1..3 :
          LET record == page_records'[Len(page_records) + i]
          IN  /\ record.clave_contabilidad = Strip(SplitLines(CellStr(row[2]))[i])
              /\ \A f \in AmountFieldSet :
                    record[f] = C3_AmountOf(row[AmountColumn[f]], i)

C3_HasConcept(row) ==
    LET concepto == CollapseSpaces(Strip(
            (IF pending_partial_row # NoRow THEN CellText(pending_partial_row[1]) \o <<" ">>
             ELSE <<>>) \o CellText(row[1])))
    IN  /\ concepto # <<>>
        /\ Upper(concepto) \notin {wCONCEPTO, wTOTAL}
        /\ ~IsHeaderRow(row)

C7_Idempotence ==
    (run = 2 /\ pc \in {"done", "raised"}) => Result = first

\* the second run is complete, and the first had left an anchor row and a
\* cross-page merge behind
C7_Witness ==
    /\ run = 2
    /\ pc = "done"
    /\ first.outcome = "document"
    /\ first.tribute_records # <<>>
    /\ last_processed_row # NoRow
    /\ merge_log.page # 0

\* C8: the caller gets a document or a PDFExtractionError, nothing else.
C8_ErrorContract ==
    pc \in {"done", "raised"} => outcome \in {"document", "PDFExtractionError"}

\* the pages whose rows extract() reads without the detector throwing
C9_GoodPages ==
    {i \in 1..PagesToProcess(Len(pdf)) : ~pdf[i].throws /\ PageTables(pdf[i]) # <<>>}

\* C9: when the detector throws on one page of a readable document of several
\* pages, extract() still returns a document, and every row of the other
\* processed pages has its record (the rows of these documents are plain
\* data rows, one record each).
C9_PageIsolation ==
    (/\ pc \in {"done", "raised"}
     /\ file = "ok"
     /\ Len(pdf) >= 2
     /\ Cardinality({i \in 1..Len(pdf) : pdf[i].throws}) = 1)
        => /\ outcome = "document"
           /\ Len(tribute_records) =
                 Cardinality({ij \in (1..Len(pdf)) \X (1..MaxRows) :
                                 ij[1] \in C9_GoodPages /\ ij[2] <= Len(pdf[ij[1]].rows)})

RECURSIVE C11_TotalsTablesFrom(_)
\* the tables of the pages from page i on that match the totals signature,
\* in page order then table order
C11_TotalsTablesFrom(i) ==
    IF i > Len(pdf) THEN <<>>
    ELSE SelectSeq(PageTables(pdf[i]), IsTotalsTable) \o C11_TotalsTablesFrom(i + 1)

\* C11: whenever extract() returns a document of any number of pages (one
\* included) some page of which holds a table with the totals signature, the
\* document's grand totals are those parsed from the first such table in
\* page order then table order.
C11_TotalsScope ==
    (pc = "done" /\ C11_TotalsTablesFrom(1) # <<>>)
        => doc_totals =
              ParseTotalsLines(ZeroTotals,
                  SplitLines(Str(MultilineCells(C11_TotalsTablesFrom(1)[1])[1])))


\* the detector gives the tables of every page, and none has the totals
\* signature
C12_NoTotalsTable ==
    /\ file = "ok"
    /\ pdf # <<>>
    /\ \A i \in 1..Len(pdf) :
          ~pdf[i].throws /\ SelectSeq(PageTables(pdf[i]), IsTotalsTable) = <<>>

\* C12: when the detector gives the tables of every page and none of them
\* matches the totals signature, extract() returns a document; its seven
\* grand totals and a_liquidar are zero and its deductions absent; and the
\* totals step leaves the records and summaries of the pages as they were.
C12_TotalsNotFound ==
    /\ []((C12_NoTotalsTable /\ pc \in {"done", "raised"}) =>
            /\ pc = "done"
            /\ outcome = "document"
            /\ doc_totals = ZeroTotals
            /\ doc_deductions = NoDeductions
            /\ Len(tribute_records) = emitted)
    /\ [][(C12_NoTotalsTable /\ pc \in {"pages", "refunds"} /\ pc' # "rows"
              /\ page_idx' = page_idx)
            => /\ tribute_records' = tribute_records
               /\ exercise_summaries' = exercise_summaries]_vars

\* a document of three pages with records and no totals table is complete
C12_Witness ==
    /\ pc = "done"
    /\ run = 1
    /\ Len(pdf) = 3
    /\ C12_NoTotalsTable
    /\ Len(tribute_records) = 2
    /\ doc_totals = ZeroTotals
    /\ doc_deductions = NoDeductions


RECURSIVE C13_RowsOfPages(_, _)
\* the places of the rows of pages p to n, page by page, and within a page
\* in table order then row order; a page whose extraction raises has none
C13_RowsOfPages(p, n) ==
    IF p > n THEN <<>>
    ELSE (IF pdf[p].throws \/ PageTables(pdf[p]) = <<>> THEN <<>>
          ELSE [r \in 1..Len(PageRows(pdf[p])) |-> <<p, r>>])
         \o C13_RowsOfPages(p + 1, n)

\* C13: the row loop takes the rows in page order, table order within a
\* page and row order within a table; when extract() returns, it has taken
\* the rows of every page but the final one of a document of several pages,
\* and the rows of the sole page of a single-page document; and the pending
\* row, anchor, replace flag, records and summaries change only at the start
\* of extract(), when a row of such a page is taken or when a page ends.
C13_PageOrder ==
    /\ [](pc \in {"pages", "refunds", "done"} => fed = C13_RowsOfPages(1, page_idx))
    /\ [](pc = "rows" =>
            fed = C13_RowsOfPages(1, page_idx)
                    \o [r \in 1..(row_idx - 1) |-> <<page_idx + 1, r>>])
    /\ [](pc = "done" =>
            /\ page_idx = (IF Len(pdf) = 1 THEN 1 ELSE Len(pdf) - 1)
            /\ \A i \in 1..Len(fed) : Len(pdf) = 1 \/ fed[i][1] < Len(pdf))
    /\ [][(<<fieldVars, page_records, page_summaries>>' # <<fieldVars, page_records, page_summaries>>)
            => \/ pc \in {"build", "ready"}
               \/ pc = "pages" /\ pc' = "rows"
               \/ /\ pc = "rows"
                  /\ Len(pdf) = 1 \/ page_idx + 1 < Len(pdf)
                  /\ (pc' = "rows" => fed' = Append(fed, <<page_idx + 1, row_idx>>))]_vars

\* a document of two pages is complete: two rows of the first page were
\* taken in order, the row of the final page was not
C13_Witness ==
    /\ pc = "done"
    /\ run = 1
    /\ Len(pdf) = 2
    /\ pdf[1].rows = <<rData, rPartial>>
    /\ pdf[2].rows = <<rData>>
    /\ fed = << <<1, 1>>, <<1, 2>> >>
    /\ Len(tribute_records) = 1

\* the summary whose result validate_exercise_summaries keeps for a year:
\* the last one declared for it
C14_SummaryOf(y) ==
    v_summaries[CHOOSE i \in 1..Len(v_summaries) :
        /\ v_summaries[i].ejercicio = y
        /\ \A j \in (i + 1)..Len(v_summaries) : v_summaries[j].ejercicio # y]
\* the delta of a field: the sum of the year's records minus the summary
C14_Delta(y, f) == SumField(RecordsByYear(v_records, y), f) - C14_SummaryOf(y)[f]
C14_Over(y) == {f \in AmountFieldSet : Abs(C14_Delta(y, f)) > Tolerance}
\* C14: after validation there is one result per declared summary year; it
\* is valid exactly when each of the seven differences between the sum of
\* the year's records and the summary is at most 0.01 in absolute value, and
\* its errors hold exactly one entry per field whose difference exceeds 0.01.
C14_PerYearValidation ==
    v_pc = "validated" =>
        /\ DOMAIN v_results = {v_summaries[i].ejercicio : i \in 1..Len(v_summaries)}
        /\ \A y \in DOMAIN v_results :
              /\ v_results[y].ejercicio = y
              /\ \A f \in AmountFieldSet :
                    v_results[y].calc[f] - v_results[y].doc[f] = C14_Delta(y, f)
              /\ v_results[y].is_valid <=>
                    \A f \in AmountFieldSet : Abs(C14_Delta(y, f)) <= Tolerance
              /\ Len(v_results[y].errors) = Cardinality(C14_Over(y))
              /\ \A f \in C14_Over(y) :
                    \E i \in 1..Len(v_results[y].errors) : v_results[y].errors[i] = f

\* two declared years validated: one off by exactly 0.01 on a field and
\* valid, the other off by 0.02 on two fields and invalid with two errors
C14_Witness ==
    /\ v_pc = "validated"
    /\ Len(v_records) = 2
    /\ DOMAIN v_results = ValYears
    /\ Abs(C14_Delta(2024, "voluntaria")) = Tolerance
    /\ v_results[2024].is_valid
    /\ v_results[2024].errors = <<>>
    /\ ~v_results[2025].is_valid
    /\ v_results[2025].errors = <<"voluntaria", "liquido">>

\* total_liquido - total_deducciones is within 0.01 of a_liquidar
C15_LiquidarFits ==
    Abs(v_totals.liquido - v_deductions.total_deducciones - v_totals.a_liquidar) <= Tolerance
\* C15: validate_totals returns no error exactly when, on each of the seven
\* amount fields, the records add up to the declared grand total within 0.01
\* and, deductions being present, total_liquido - total_deducciones is within
\* 0.01 of a_liquidar.
C15_OverallValidation ==
    v_pc = "validated" =>
        (v_errors = <<>> <=>
            /\ \A f \in AmountFieldSet : Abs(SumField(v_records, f) - v_totals[f]) <= Tolerance
            /\ v_deductions.present => C15_LiquidarFits)

\* a cell that is empty, whitespace-only or absent
C16_EmptyCell(cell) == cell = None \/ Strip(cell) = <<>>
\* the cells at indices 1 through 9 of a row (those it has)
C16_DataCells(row) == {i \in 2..10 : i <= Len(row)}
\* the first cell is non-empty and holds no header or total marker
C16_ConceptOnly(row) ==
    /\ ~C16_EmptyCell(row[1])
    /\ \A marker \in {wCONCEPTO, wCLAVE, wTOTAL} : ~Contains(Upper(row[1]), marker)
\* C16: a row of at least 8 cells whose first cell is non-empty and without
\* header or total marker and whose cells 1 through 9 are each empty,
\* whitespace-only or absent is classified as partial; a row with text in
\* one of the cells 1 through 9 is not.
C16_PartialClassification ==
    r_pc = "classified" =>
        /\ (/\ Len(r_row) >= 8
            /\ C16_ConceptOnly(r_row)
            /\ \A i \in C16_DataCells(r_row) : C16_EmptyCell(r_row[i]))
           => r_partial
        /\ (\E i \in C16_DataCells(r_row) : ~C16_EmptyCell(r_row[i])) => ~r_partial

\* C19: each of the seven amounts of a record assembled from a row is >= 0,
\* whatever the amount cells of the row held.
C19_NonNegativeAmounts ==
    (r_pc = "parsed" /\ r_record # <<>>) =>
        \A f \in AmountFieldSet : r_record[1][f] >= 0

\* the row at a <<page, row>> place of the document
C17_RowAt(place) == PageRows(pdf[place[1]])[place[2]]
\* the year a row sets as the current year, NoYear if it is not a total row
\* with a year
C17_TotalYear(row) ==
    ProcessRow([pending |-> NoRow, last |-> NoRow, replace |-> FALSE, records |-> <<>>,
                summaries |-> <<>>, current_exercise |-> NoYear], row).current_exercise
\* the year of the most recent total row among the rows processed so far
\* in the document, the default if there is none
C17_Hint ==
    LET total_places == SelectSeq(fed, LAMBDA place : C17_TotalYear(C17_RowAt(place)) # NoYear)
    IN  IF total_places = <<>> THEN DefaultYear
        ELSE C17_TotalYear(C17_RowAt(total_places[Len(total_places)]))
\* the row step emits a record whose keys hold no year
C17_EmitsYearless ==
    /\ RowStep
    /\ Len(page_records') = Len(page_records) + 1
    /\ LET record == page_records'[Len(page_records')]
       IN  InferYear(record.clave_recaudacion, record.clave_contabilidad, 1) = 1
\* C17: a record whose keys hold no year gets the year of the most recent
\* TOTAL EJERCICIO row processed before it in the document, on the same page
\* or an earlier one, and the default only if there is none.
C17_YearHint ==
    [][C17_EmitsYearless => page_records'[Len(page_records')].ejercicio = C17_Hint]_vars

\* the text holds a digit
C18_HasDigit(text) == text # None /\ \E i \in 1..Len(text) : IsDigit(text[i])
\* C18: parse_amount gives a decimal number for every input, and zero for
\* every input that is not a well-formed number (here: one without a digit).
C18_ParserLeniency ==
    a_pc = "parsed_raw" =>
        /\ a_res.kind # "error"
        /\ ~C18_HasDigit(a_text) => a_res = DecZero

\* the steps of its extract() an extractor has taken
C20_StepsTaken(ext) ==
    IF ext.pc = "ready" THEN 0
    ELSE 1 + ext.page_idx + (IF ext.pc = "done" THEN 1 ELSE 0)
RECURSIVE C20_AloneAfter(_, _)
\* an extractor that has taken n steps with no other extractor around
C20_AloneAfter(ext, n) ==
    IF n = 0 THEN ext ELSE C20_AloneAfter(ExtractStep(ext), n - 1)
\* C20: however the steps of two extraction runs on two extractors are
\* interleaved, each extractor is at every moment (pending partial row,
\* anchor row and replace flag included) as it would be had it taken its
\* steps alone, and so ends with the records, summaries and totals of a run
\* alone.
C20_IndependentDocuments ==
    \A i \in Instances :
        extractors[i] = C20_AloneAfter(NewExtractor(extractors[i].pdf),
                                       C20_StepsTaken(extractors[i]))

\* both runs are under way, one holding a pending partial row and the other
\* an anchor row, on documents that differ
C20_Witness ==
    /\ extractors # <<>>
    /\ extractors[1].pc = "pages" /\ extractors[1].page_idx = 1
    /\ extractors[1].pending_partial_row # NoRow
    /\ extractors[2].pc = "pages" /\ extractors[2].page_idx = 1
    /\ extractors[2].last_processed_row # NoRow
    /\ extractors[2].tribute_records # <<>>
    /\ extractors[2].pdf[2].rows = <<rPartial>>

\* the lines of the concept cell of a row
C21_ConceptLines(row) == SplitLines(CellStr(row[1]))
\* the TOTAL EJERCICIO lines of the concept cell that hold a 4-digit year
C21_TotalLines(row) ==
    SelectSeq(C21_ConceptLines(row),
              LAMBDA line : Contains(Upper(line), wTOTAL_EJERCICIO) /\ MatchesFour(line) # {})
\* line n of a cell with line breaks, "" for the second line of a cell
\* without
C21_Line(cell, n) ==
    IF HasChar(CellStr(cell), "\n") THEN SplitLines(CellStr(cell))[n]
    ELSE IF n = 1 THEN CellStr(cell) ELSE <<>>
\* the row loop takes a concept+total merged row with a year in its total
\* line, no partial row pending
C21_MergedRowStep ==
    /\ RowStep
    /\ pending_partial_row = NoRow
    /\ Len(C21_ConceptLines(CurrentRow)) >= 3
    /\ C21_TotalLines(CurrentRow) # <<>>
\* C21: a concept+total merged row whose TOTAL EJERCICIO line holds the year
\* Y emits its record, with the amounts of the first lines, and then exactly
\* one ExerciseSummary of the year Y with the amounts of the second lines.
C21_ConceptTotalMerged ==
    [][C21_MergedRowStep =>
          /\ Len(page_records') = Len(page_records) + 1
          /\ \A f \in AmountFieldSet :
                page_records'[Len(page_records')][f]
                    = Mils(ParseAmount(C21_Line(CurrentRow[AmountColumn[f]], 1)))
          /\ Len(page_summaries') = Len(page_summaries) + 1
          /\ page_summaries'[Len(page_summaries')].ejercicio
                = FirstFour(C21_TotalLines(CurrentRow)[1])
          /\ \A f \in AmountFieldSet :
                page_summaries'[Len(page_summaries')][f]
                    = Mils(ParseAmount(C21_Line(CurrentRow[AmountColumn[f]], 2)))]_vars

\* the text of cell c of a row, "" where the row has no such cell
C22_Value(row, c) == IF c <= Len(row) THEN CellText(row[c]) ELSE <<>>
\* the row loop merges a partial row backward into the anchor
C22_BackwardStep == RowStep /\ IsBackwardMerge(RowState, CurrentRow)
\* C22: a backward merge makes a row whose concept is the anchor's concept,
\* a space and the partial's concept and whose other cells hold the
\* partial's value where it has one and the anchor's value elsewhere; that
\* row becomes the anchor.
C22_BackwardMergeContent ==
    [][C22_BackwardStep =>
          /\ Len(last_processed_row') >= Len(last_processed_row)
          /\ Len(last_processed_row') >= Len(CurrentRow)
          /\ last_processed_row'[1] =
                C22_Value(last_processed_row, 1) \o <<" ">> \o C22_Value(CurrentRow, 1)
          /\ \A c \in 2..Len(last_processed_row') :
                last_processed_row'[c] =
                    IF C22_Value(CurrentRow, c) # <<>> THEN C22_Value(CurrentRow, c)
                    ELSE C22_Value(last_processed_row, c)
          /\ page_records' # <<>>
          /\ page_records'[Len(page_records')].concepto
                = CollapseSpaces(last_processed_row'[1])]_vars

\* a backward merge has given the anchor the partial row's note in a cell
\* the anchor did not have, next to the anchor's own amounts
C22_Witness ==
    /\ pc = "rows"
    /\ prev_row = rPartialWide
    /\ Len(last_processed_row) = 11
    /\ last_processed_row[1] = tBAR \o <<" ">> \o tFOO
    /\ last_processed_row[11] = <<"x">>
    /\ last_processed_row[10] = aThousands
    /\ page_records # <<>>
    /\ page_records[Len(page_records)].concepto = tBAR \o <<" ">> \o tFOO

\* the last record of the page is the one assembled from the anchor
C23_AnchorOfLastRecord ==
    /\ page_records' # <<>>
    /\ ParseTributeRow(last_processed_row', current_exercise)
          = <<page_records'[Len(page_records')]>>
\* C23: within an extraction the anchor changes only in a row step that
\* appends a record, and whenever a row step changes the page's records the
\* anchor is the row the last record was assembled from; every other step
\* (header, skipped and total rows, page boundaries) leaves it as it is.
\* (The start of extract(), which clears the anchor, is not a step within.)
C23_AnchorFrame ==
    [][/\ (last_processed_row' # last_processed_row /\ pc \notin {"build", "ready"})
             => (RowStep /\ page_records' # page_records /\ C23_AnchorOfLastRecord)
       /\ (RowStep /\ page_records' # page_records) => C23_AnchorOfLastRecord]_vars

\* a record, its year's total row and a partial row on one page: the
\* partial row went into the record that preceded the total row
C23_Witness ==
    /\ pc = "rows"
    /\ PageRows(CurrentPage) = <<rData, rTotal, rPartialWide>>
    /\ row_idx = 4
    /\ Len(page_records) = 1
    /\ page_records[1].concepto = tBAR \o <<" ">> \o tFOO
    /\ page_records[1].clave_contabilidad = kc2023
    /\ Len(page_summaries) = 1
    /\ last_processed_row[1] = tBAR \o <<" ">> \o tFOO

\* the row carries no data in its columns 3 to 9: each of these cells is
\* absent, empty or blank
C24_NoData(row) ==
    \A c \in 4..10 : c <= Len(row) => (row[c] = None \/ Strip(row[c]) = <<>>)
\* C24: while a partial row is pending, a header row or a row without data
\* in columns 3-9 emits nothing and leaves the pending row, the anchor and
\* the replace flag as they are; within an extraction the pending row is
\* cleared only by a row step on a row with data that is not a header.
C24_PendingFrame ==
    [][/\ (/\ RowStep
           /\ pending_partial_row # NoRow
           /\ (IsHeaderRow(CurrentRow) \/ C24_NoData(CurrentRow)))
          => /\ page_records' = page_records
             /\ page_summaries' = page_summaries
             /\ fieldVars' = fieldVars
       /\ (/\ pending_partial_row # NoRow
           /\ pending_partial_row' = NoRow
           /\ pc \notin {"build", "ready"})
          => (RowStep /\ ~IsHeaderRow(CurrentRow) /\ ~C24_NoData(CurrentRow))]_vars

\* the first cell of the row holds TOTAL and EJERCICIO on a single line
C25_TotalLabel(row) ==
    /\ row[1] # None
    /\ ~HasChar(row[1], "\n")
    /\ Contains(Upper(row[1]), wTOTAL)
    /\ Contains(Upper(row[1]), wEJERCICIO)
\* C25: a row whose first cell holds both TOTAL and EJERCICIO on one line
\* creates no record and alters none (the page's records stay as they are
\* and no replacement of the document's last record is asked for); it adds
\* at most one summary.
C25_TotalRowsNeverRecords ==
    [][(RowStep /\ C25_TotalLabel(CurrentRow)) =>
          /\ page_records' = page_records
          /\ replace_last_record' = replace_last_record
          /\ last_processed_row' = last_processed_row
          /\ Len(page_summaries') <= Len(page_summaries) + 1]_vars

\* C26: the pending partial row and the anchor row are never both set; a
\* row step stashes a partial row only while no record of the document has
\* been emitted, and a partial row met once there is an anchor is merged
\* backward into it.
C26_PendingAnchorExclusive ==
    /\ [](pending_partial_row = NoRow \/ last_processed_row = NoRow)
    /\ [][(RowStep /\ pending_partial_row' # NoRow /\ pending_partial_row' # pending_partial_row)
             => (emitted = 0 /\ tribute_records = <<>> /\ page_records = <<>>)]_vars
    /\ [][(RowStep /\ last_processed_row # NoRow /\ ~IsHeaderRow(CurrentRow)
              /\ IsPartialRow(CurrentRow))
             => /\ pending_partial_row' = NoRow
                /\ last_processed_row' = MergePartialRow(last_processed_row, CurrentRow)]_vars

\* a partial row was stashed at the start of a document, merged forward into
\* a record, and a later partial row has been merged backward
C26_Witness ==
    /\ pc = "rows"
    /\ PageRows(CurrentPage) = <<rPartialWide, rData, rPartialWide>>
    /\ row_idx = 4
    /\ pending_partial_row = NoRow
    /\ Len(page_records) = 1
    /\ page_records[1].concepto = tFOO \o <<" ">> \o tBAR \o <<" ">> \o tFOO

\* a record but for its year
C27_Content(record) == [record EXCEPT !.ejercicio = NoYear]
\* the last record of the document is the one assembled from the anchor
C27_LastIsAnchorRecord ==
    /\ tribute_records # <<>>
    /\ <<C27_Content(tribute_records[Len(tribute_records)])>>
          = [i \in 1..Len(ParseTributeRow(last_processed_row, NoYear)) |->
                C27_Content(ParseTributeRow(last_processed_row, NoYear)[i])]
\* C27: the replace flag is false whenever the page loop is between pages;
\* it is set only by a backward merge on a page without records so far, the
\* document's list then ending with the record assembled from the anchor;
\* and the end of a page drops that one record, if the flag is set, before
\* it appends the page's records, and clears the flag.
C27_ReplaceFlag ==
    /\ [](pc \in {"ready", "pages", "refunds", "done"} => ~replace_last_record)
    /\ [][(replace_last_record' /\ ~replace_last_record)
             => /\ RowStep
                /\ IsBackwardMerge(RowState, CurrentRow)
                /\ page_records = <<>>
                /\ C27_LastIsAnchorRecord]_vars
    /\ [][(pc = "rows" /\ pc' = "pages")
             => /\ ~replace_last_record'
                /\ tribute_records' =
                      (IF replace_last_record
                       THEN SubSeq(tribute_records, 1, Len(tribute_records) - 1)
                       ELSE tribute_records) \o page_records
                /\ replace_last_record => page_records # <<>>]_vars

\* page 1 gave two records, page 2 began with a partial row: the second
\* record has been replaced and the first is where it was
C27_Witness ==
    /\ pc = "pages"
    /\ page_idx = 2
    /\ pdf[1].rows = <<rData, rData>>
    /\ pdf[2].rows = <<rPartial>>
    /\ ~replace_last_record
    /\ Len(tribute_records) = 2
    /\ tribute_records[1].concepto = tBAR
    /\ tribute_records[2].concepto = tBAR \o <<" ">> \o tFOO

\* the record list the document would get if the page ended here
C28_Output ==
    (IF replace_last_record /\ tribute_records # <<>>
     THEN SubSeq(tribute_records, 1, Len(tribute_records) - 1)
     ELSE tribute_records)
    \o (IF pc = "rows" THEN page_records ELSE <<>>)
\* place p of the document comes before place q
C28_Before(p, q) == p[1] < q[1] \/ (p[1] = q[1] /\ p[2] < q[2])
\* record new is record old with a longer concept
C28_Extends(old, new) ==
    /\ new = [old EXCEPT !.concepto = new.concepto, !.ejercicio = new.ejercicio]
    /\ Len(new.concepto) > Len(old.concepto)
    /\ SubSeq(new.concepto, 1, Len(old.concepto)) = old.concepto
\* the records a step adds come one after the other from the lines of the
\* accounting-key cell when the row holds several records
C28_LineOrder(old, new, row) ==
    HasMultipleRecords(row)
       => /\ Len(new) - Len(old) = Len(SplitLines(CellStr(row[2])))
          /\ \A i \in 1..(Len(new) - Len(old)) :
                new[Len(old) + i].clave_contabilidad
                   = Strip(SplitLines(CellStr(row[2]))[i])
\* what one step may do to the output
C28_Change(old, new) ==
    \/ new = old
    \/ /\ RowStep
       /\ ~IsBackwardMerge(RowState, CurrentRow)
       /\ Len(new) > Len(old)
       /\ SubSeq(new, 1, Len(old)) = old
       /\ \A i \in DOMAIN fed : C28_Before(fed[i], <<page_idx + 1, row_idx>>)
       /\ C28_LineOrder(old, new, CurrentRow)
    \/ /\ RowStep
       /\ IsBackwardMerge(RowState, CurrentRow)
       /\ old # <<>>
       /\ Len(new) = Len(old)
       /\ SubSeq(new, 1, Len(old) - 1) = SubSeq(old, 1, Len(old) - 1)
       /\ C28_Extends(old[Len(old)], new[Len(new)])
\* C28: from the first page on, a step leaves the output as it is, or adds
\* at its end the records of the row it takes, a row placed after every row
\* taken before (the records of a split row in the order of its lines), or,
\* in a backward merge, puts a record with a longer concept in the place of
\* the last one; the earlier records stay where they are.  The list of the
\* document is the output after the last page.
C28_OutputOrder ==
    /\ [][(pc \in {"pages", "rows"} /\ pc' # "ready")
             => C28_Change(C28_Output, C28_Output')]_vars
    /\ [](pc \in {"pages", "refunds", "done"} => C28_Output = tribute_records)
\* a split row on page 1, a partial row on top of page 2: three records in
\* the order of the lines, the third with the longer concept
C28_Witness ==
    /\ pc = "pages"
    /\ page_idx = 2
    /\ pdf[1].rows = <<rMulti>>
    /\ pdf[2].rows = <<rPartial>>
    /\ Len(tribute_records) = 3
    /\ \A i \in 1..3 : tribute_records[i].clave_contabilidad
                          = Strip(SplitLines(CellStr(rMulti[2]))[i])
    /\ Len(tribute_records[3].concepto) > Len(tribute_records[2].concepto)
    /\ tribute_records[1].concepto = tribute_records[2].concepto

\* how many times sub occurs in s
RECURSIVE C29_Count(_, _)
C29_Count(s, sub) ==
    IF Len(s) < Len(sub) THEN 0
    ELSE (IF SubSeq(s, 1, Len(sub)) = sub THEN 1 ELSE 0) + C29_Count(Tail(s), sub)
\* how many times the concept text of the partial rows occurs in the
\* concepts of the records
RECURSIVE C29_InRecords(_)
C29_InRecords(records) ==
    IF records = <<>> THEN 0
    ELSE C29_Count(Head(records).concepto, tFOO) + C29_InRecords(Tail(records))
\* the i-th row the row loop took
C29_Fed(i) == PageRows(pdf[fed[i][1]])[fed[i][2]]
\* the partial rows among the rows the row loop took
C29_PartialRows == {i \in 1..Len(fed) : IsPartialRow(C29_Fed(i))}
\* what the row loop does with a row, given the pending row
C29_After(pending, row) ==
    ProcessRow([pending |-> pending, last |-> NoRow, replace |-> FALSE, records |-> <<>>,
                summaries |-> <<>>, current_exercise |-> NoYear], row)
\* the number of times partial rows, from the i-th row taken on, reach a
\* record: once for a partial row met when a record has been emitted
\* (anchor) and no row is pending; once per record of the row with data, not
\* a header, that follows a stashed partial row (the two rows joined stay
\* pending if, joined, they hold no data)
RECURSIVE C29_Reaching(_, _, _)
C29_Reaching(i, anchor, pending) ==
    IF i > Len(fed) THEN 0
    ELSE IF pending # NoRow
         THEN IF IsHeaderRow(C29_Fed(i)) \/ ~HasData(C29_Fed(i))
              THEN C29_Reaching(i + 1, anchor, pending)
              ELSE Len(C29_After(pending, C29_Fed(i)).records)
                      + C29_Reaching(i + 1,
                                     anchor \/ C29_After(pending, C29_Fed(i)).records # <<>>,
                                     C29_After(pending, C29_Fed(i)).pending)
    ELSE IF IsHeaderRow(C29_Fed(i)) THEN C29_Reaching(i + 1, anchor, NoRow)
    ELSE IF IsPartialRow(C29_Fed(i))
         THEN IF anchor THEN 1 + C29_Reaching(i + 1, TRUE, NoRow)
              ELSE C29_Reaching(i + 1, FALSE, C29_Fed(i))
    ELSE C29_Reaching(i + 1, anchor \/ C29_After(NoRow, C29_Fed(i)).records # <<>>, NoRow)
\* C29 as stated: when extract() returns, every partial row of the
\* processed pages has its concept text in exactly one record of the list
C29_AsStated ==
    pc = "done" => C29_InRecords(tribute_records) = Cardinality(C29_PartialRows)
\* C29: when extract() returns, the partial rows whose concept text is in a
\* record of the list are those met after a record was emitted, merged
\* backward into that one record, and those stashed as the pending row and
\* followed on a processed page by a row with data, in each record that row
\* yields; a partial row that arrives while another is pending, and a
\* partial row still pending after the last processed page, are in no record.
C29_PartialRowsKept ==
    pc = "done" =>
       /\ C29_InRecords(tribute_records) = C29_Reaching(1, FALSE, NoRow)
       /\ pending_partial_row # NoRow
             => C29_InRecords(tribute_records) < Cardinality(C29_PartialRows)
\* two partial rows and then a row with data: one record, with the concept
\* text of one partial row
C29_Witness ==
    /\ pc = "done"
    /\ pdf[1].rows = <<rPartial, rPartial, rData>>
    /\ Cardinality(C29_PartialRows) = 2
    /\ Len(tribute_records) = 1
    /\ tribute_records[1].concepto = tFOO \o <<" ">> \o tBAR

\* the places of the summaries that no later summary of the same year follows
C30_Latest ==
    {i \in 1..Len(v_summaries) :
        \A j \in (i + 1)..Len(v_summaries) :
            v_summaries[j].ejercicio # v_summaries[i].ejercicio}
\* C30: the map validate_exercise_summaries returns has one entry for each
\* distinct year of the summaries and no other; the entry of a year holds
\* the amounts of the latest summary that declares the year; a year that
\* has records and no summary has no entry.
C30_ResultKeys ==
    v_pc = "validated" =>
        /\ DOMAIN v_results \subseteq C5_SummaryYears
        /\ Cardinality(DOMAIN v_results) = Cardinality(C30_Latest)
        /\ \A i \in C30_Latest :
              /\ v_summaries[i].ejercicio \in DOMAIN v_results
              /\ \A f \in AmountFieldSet :
                    v_results[v_summaries[i].ejercicio].doc[f] = v_summaries[i][f]
        /\ \A y \in C5_RecordYears \ C5_SummaryYears : y \notin DOMAIN v_results
\* two summaries of 2024 that differ and a record of 2025: one entry, for
\* 2024, with the amounts of the second summary
C30_Witness ==
    /\ v_pc = "validated"
    /\ Len(v_summaries) = 2
    /\ v_summaries[1].ejercicio = 2024
    /\ v_summaries[2].ejercicio = 2024
    /\ v_summaries[1].voluntaria # v_summaries[2].voluntaria
    /\ 2025 \in C5_RecordYears
    /\ DOMAIN v_results = {2024}
    /\ v_results[2024].doc.voluntaria = v_summaries[2].voluntaria

=============================================================================
